---- MODULE Spec2Model ----
(***************************************************************************)
(* Register-level driver for the Bosch BMP180 / BMP280 / BME280 / BMP388   *)
(* sensors (package bsbmp).  The module models the facade (bmp.go), the    *)
(* trigger / poll / read protocol of the four variants and the pure        *)
(* helpers (signature recognition, coefficient decoding and validation).   *)
(*                                                                         *)
(* A public operation is a sequential program over the i2c bus.  Every     *)
(* source function is modelled by the sequence of bus instructions it      *)
(* issues (the *_read*, *_ReadCoefficients, ... definitions below); the    *)
(* actions execute one instruction, one poll or one sleep at a time, and   *)
(* every bus operation may fail with a transport error.                    *)
(***************************************************************************)
EXTENDS Integers, Sequences, FiniteSets, TLC

VARIABLES
    sensorType,   \* BMP.sensorType of the handle built last
    bmp,          \* BMP.bmp: the variant implementation, "nil" when unset
    Coeff,        \* Sensor*.Coeff: <<>> is the nil pointer, else the decoded bytes
    handle,       \* the caller holds a non-nil *BMP returned by NewBMP
    device,       \* which calibration memory the chip on the bus holds
    status,       \* "idle", "running" or "done" (the operation has returned)
    op,           \* the public operation in progress: [name, accuracy]
    pc,           \* index of the next instruction in Program
    w,            \* the running waitForCompletion: [i, polls, sleeps, result]
    since,        \* polls and sleeps since the last trigger write: [polls, sleeps, armed]
    locals,       \* id, ut, up, uh and the calibration bytes read so far
    trace,        \* the bus operations and calls of this operation, in order
    timedOut,     \* some waitForCompletion of this operation returned timeout = true
    erro,         \* the first error met by this operation
    ret,          \* what the operation returned
    kept,         \* a result the caller kept to compare the next one with
    inp,          \* argument of the pure function under check
    out           \* its result

protoVars == <<sensorType, bmp, Coeff, handle, device, status, op, pc, w, since,
               locals, trace, timedOut, erro, ret>>
pureVars == <<inp, out>>
auxVars == <<kept, inp, out>>
vars == <<sensorType, bmp, Coeff, handle, device, status, op, pc, w, since,
          locals, trace, timedOut, erro, ret, kept, inp, out>>

(***************************************************************************)
(* Bounds of the model.                                                    *)
(***************************************************************************)
\* SensorType arguments of NewBMP are 0..MaxSensorType (0..3 are the variants).
MaxSensorType == 4
\* AccuracyMode arguments are 0..MaxAccuracy (the enumeration is 0..5).
MaxAccuracy == 2
\* Number of distinct output-register contents the bus may deliver.
NumSamples == 2
\* Number of distinct calibration-memory contents the bus may deliver.
NumBlocks == 2
\* Number of coefficients altered at once in the validity check's inputs.
MaxAltered == 2

(***************************************************************************)
(* Program constants.                                                      *)
(***************************************************************************)
BMP180 == 0
BMP280 == 1
BME280 == 2
BMP388 == 3

ACCURACY_ULTRA_LOW == 0
ACCURACY_LOW == 1
ACCURACY_STANDARD == 2
ACCURACY_HIGH == 3
ACCURACY_ULTRA_HIGH == 4
ACCURACY_HIGHEST == 5

BMP180_ID_REG == 208
BMP180_CNTR_MEAS_REG == 244
BMP180_COEF_START == 170
BMP180_COEF_BYTES == 22
BMP180_OUT_MSB_LSB_XLSB == 246

BMP280_ID_REG == 208
BMP280_STATUS_REG == 243
BMP280_CNTR_MEAS_REG == 244
BMP280_COEF_START == 136
BMP280_COEF_BYTES == 24
BMP280_PRESS_OUT_MSB_LSB_XLSB == 247
BMP280_TEMP_OUT_MSB_LSB_XLSB == 250

BME280_ID_REG == 208
BME280_CTRL_HUM == 242
BME280_STATUS == 243
BME280_CTRL_MEAS == 244
BME280_COEF_PART1_START == 136
BME280_COEF_PART1_BYTES == 24
BME280_COEF_PART2_START == 161
BME280_COEF_PART2_BYTES == 1
BME280_COEF_PART3_START == 225
BME280_COEF_PART3_BYTES == 7
BME280_PRESS_OUT_MSB_LSB_XLSB == 247
BME280_TEMP_OUT_MSB_LSB_XLSB == 250
BME280_HUM_OUT_MSB_LSB == 253

BMP388_ID_REG == 0
BMP388_STATUS_REG == 3
BMP388_OSR_REG == 29
BMP388_PWR_CTRL_REG == 27
BMP388_CONFIG == 31
BMP388_COEF_START == 49
BMP388_COEF_BYTES == 21
BMP388_PRES_OUT_MSB_LSB_XLSB == 4
BMP388_TEMP_OUT_MSB_LSB_XLSB == 7
BMP388_PWR_MODE_FORCED == 1
BMP388_coef_0 == 0

\* waitForCompletion: for i := 0; i < 10; i++
PollAttempts == 10

(***************************************************************************)
(* Fixed-width integer helpers (Go's byte, uint16, int16 arithmetic).      *)
(***************************************************************************)
RECURSIVE BitAnd(_, _)
BitAnd(a, b) ==
    IF a = 0 \/ b = 0 THEN 0
    ELSE (a % 2) * (b % 2) + 2 * BitAnd(a \div 2, b \div 2)

RECURSIVE BitOr(_, _)
BitOr(a, b) ==
    IF a = 0 THEN b
    ELSE IF b = 0 THEN a
    ELSE (IF a % 2 = 1 \/ b % 2 = 1 THEN 1 ELSE 0) + 2 * BitOr(a \div 2, b \div 2)

Shl(a, n) == a * (2 ^ n)
Shr(a, n) == a \div (2 ^ n)

\* conversion to byte / uint16: the value modulo the width
ToU8(x) == x % 256
ToU16(x) == x % 65536
\* conversion of an 8-bit / 16-bit pattern to int8 / int16 (two's complement)
ToS8(x) == IF ToU8(x) >= 128 THEN ToU8(x) - 256 ELSE ToU8(x)
ToS16(x) == IF ToU16(x) >= 32768 THEN ToU16(x) - 65536 ELSE ToU16(x)

(***************************************************************************)
(* Fixed-width integers of the compensation arithmetic.  A value of n      *)
(* bytes is the sequence of its bytes, least significant first; signed     *)
(* types are two's complement, and every operation wraps modulo 2^(8n).    *)
(***************************************************************************)
\* the carries of the n byte sums d propagated, the result cut to n bytes
Norm(n, d) ==
    LET carry[k \in 0..n] == IF k = 0 THEN 0 ELSE (d[k] + carry[k - 1]) \div 256
    IN  SubSeq([k \in 1..n |-> (d[k] + carry[k - 1]) % 256], 1, n)

\* int32(x), int64(x), uint32(x) of a constant or of a 16-bit coefficient
WFrom(n, x) ==
    SubSeq([k \in 1..n |-> IF k <= 3 THEN (x \div (256 ^ (k - 1))) % 256
                           ELSE IF k = 4 THEN (x \div 16777216) % 256
                           ELSE IF x < 0 THEN 255 ELSE 0], 1, n)

WZero(n) == SubSeq([k \in 1..n |-> 0], 1, n)
WIsNeg(a) == a[Len(a)] >= 128

\* conversion between widths: int64(a) of a signed a, uint32(a), int32(a)
WSigned(n, a) ==
    SubSeq([k \in 1..n |-> IF k <= Len(a) THEN a[k]
                           ELSE IF WIsNeg(a) THEN 255 ELSE 0], 1, n)
\* conversion of an unsigned a to a wider type
WUnsigned(n, a) == SubSeq([k \in 1..n |-> IF k <= Len(a) THEN a[k] ELSE 0], 1, n)

WAdd(a, b) == Norm(Len(a), [k \in 1..Len(a) |-> a[k] + b[k]])
WSub(a, b) == Norm(Len(a), [k \in 1..Len(a) |-> a[k] - b[k]])
WNeg(a) == WSub(WZero(Len(a)), a)
WMul(a, b) ==
    Norm(Len(a), [k \in 1..Len(a) |->
            LET s[i \in 0..k] == IF i = 0 THEN 0 ELSE s[i - 1] + a[i] * b[k + 1 - i]
            IN  s[k]])

\* a << s
WShl(a, s) ==
    LET q == s \div 8
        r == s % 8
    IN  Norm(Len(a), [k \in 1..Len(a) |-> IF k > q THEN a[k - q] * (2 ^ r) ELSE 0])
\* a >> s of a signed a (fill is the sign byte) or of an unsigned a (fill 0)
WShiftRight(a, s, fill) ==
    LET q == s \div 8
        r == s % 8
        ext(j) == IF j <= Len(a) THEN a[j] ELSE fill
    IN  SubSeq([k \in 1..Len(a) |->
                    ((ext(k + q) + 256 * ext(k + q + 1)) \div (2 ^ r)) % 256],
               1, Len(a))
WSar(a, s) == WShiftRight(a, s, IF WIsNeg(a) THEN 255 ELSE 0)
WShr(a, s) == WShiftRight(a, s, 0)

\* a < b of unsigned values
WULess(a, b) ==
    \E k \in 1..Len(a) : a[k] < b[k] /\ \A j \in (k + 1)..Len(a) : a[j] = b[j]
\* a < b of signed values
WLess(a, b) ==
    IF WIsNeg(a) # WIsNeg(b) THEN WIsNeg(a) ELSE WULess(a, b)

RECURSIVE WDivBits(_, _, _, _, _)
\* long division, one byte x of the dividend: its bits from i down are brought
\* into the remainder r; d is the quotient byte so far
WDivBits(b, x, i, d, r) ==
    IF i < 0 THEN [q |-> d, r |-> r]
    ELSE LET r2 == Norm(Len(r), [k \in 1..Len(r) |->
                            2 * r[k] + (IF k = 1 THEN (x \div (2 ^ i)) % 2 ELSE 0)])
         IN  IF WULess(r2, b)
             THEN WDivBits(b, x, i - 1, d, r2)
             ELSE WDivBits(b, x, i - 1, d + 2 ^ i, WSub(r2, b))

RECURSIVE WDivStep(_, _, _, _, _)
\* long division: the bytes of a above j are consumed, q and r are the
\* quotient and the remainder so far
WDivStep(a, b, j, q, r) ==
    IF j < 1 THEN q
    ELSE LET byte == WDivBits(b, a[j], 7, 0, r)
         IN  WDivStep(a, b, j - 1, [q EXCEPT ![j] = byte.q], byte.r)
\* a / b of unsigned values, b nonzero
WUQuo(a, b) == WDivStep(a, b, Len(a), WZero(Len(a)), WZero(Len(a)))
\* a / b of signed values, b nonzero: the quotient truncated toward zero
WQuo(a, b) ==
    LET q == WUQuo(IF WIsNeg(a) THEN WNeg(a) ELSE a, IF WIsNeg(b) THEN WNeg(b) ELSE b)
    IN  IF WIsNeg(a) # WIsNeg(b) THEN WNeg(q) ELSE q

\* the value of a signed a that fits 32 bits
WInt(a) ==
    a[1] + 256 * a[2] + 65536 * a[3]
        + 16777216 * (IF a[4] >= 128 THEN a[4] - 256 ELSE a[4])

(***************************************************************************)
(* Signature recognition: the description and the error ("nil": no error). *)
(***************************************************************************)
BMP180_RecognizeSignature(signature) ==
    CASE signature = 85 -> [desc |-> "BMP180", err |-> "nil"]
      [] OTHER -> [desc |-> "", err |-> "signature doesn't belong to BMP180 series"]

\* a recognition that knows the production id only
BMP280_RecognizeSignature_production(signature) ==
    CASE signature = 88 -> [desc |-> "BMP280", err |-> "nil"]
      [] OTHER -> [desc |-> "", err |-> "signature doesn't belong to BMP280 series"]
BMP280_RecognizeSignature(signature) ==
    CASE signature = 88 -> [desc |-> "BMP280", err |-> "nil"]
      [] signature \in {86, 87} -> [desc |-> "BMP280 (sample)", err |-> "nil"]
      [] OTHER -> [desc |-> "", err |-> "signature doesn't belong to BMP280 series"]

BME280_RecognizeSignature(signature) ==
    CASE signature = 96 -> [desc |-> "BME280", err |-> "nil"]
      [] OTHER -> [desc |-> "", err |-> "signature doesn't belong to BME280 series"]

BMP388_RecognizeSignature(signature) ==
    CASE signature = 80 -> [desc |-> "BMP388", err |-> "nil"]
      [] OTHER -> [desc |-> "", err |-> "signature doesn't belong to BMP388 series"]

\* dispatch through SensorInterface
RecognizeSignature(impl, signature) ==
    CASE impl = "SensorBMP180" -> BMP180_RecognizeSignature(signature)
      [] impl = "SensorBMP280" -> BMP280_RecognizeSignature(signature)
      [] impl = "SensorBME280" -> BME280_RecognizeSignature(signature)
      [] impl = "SensorBMP388" -> BMP388_RecognizeSignature(signature)

(***************************************************************************)
(* IsBusy: the busy flag computed from the status byte b read from the bus.*)
(***************************************************************************)
BMP180_IsBusy(b) == BitAnd(b, 32) # 0
BMP280_IsBusy(b) == BitAnd(b, 8) # 0
BME280_IsBusy(b) == BitAnd(b, 8) # 0
\* busy until both the pressure and the temperature data are ready
BMP388_IsBusy_both(b) == BitAnd(b, 96) # 96
BMP388_IsBusy(b) == BitAnd(b, 96) = 0

IsBusy(impl, b) ==
    CASE impl = "SensorBMP180" -> BMP180_IsBusy(b)
      [] impl = "SensorBMP280" -> BMP280_IsBusy(b)
      [] impl = "SensorBME280" -> BME280_IsBusy(b)
      [] impl = "SensorBMP388" -> BMP388_IsBusy(b)

\* the status register IsBusy reads
StatusReg(impl) ==
    CASE impl = "SensorBMP180" -> BMP180_CNTR_MEAS_REG
      [] impl = "SensorBMP280" -> BMP280_STATUS_REG
      [] impl = "SensorBME280" -> BME280_STATUS
      [] impl = "SensorBMP388" -> BMP388_STATUS_REG

(***************************************************************************)
(* getOversamplingRation: accuracy mode -> oversampling code.              *)
(***************************************************************************)
BMP180_getOversamplingRation(accuracy) ==
    CASE accuracy \in {ACCURACY_LOW, ACCURACY_ULTRA_LOW} -> 0
      [] accuracy = ACCURACY_STANDARD -> 1
      [] accuracy = ACCURACY_HIGH -> 2
      [] accuracy = ACCURACY_ULTRA_HIGH -> 3
      [] OTHER -> 0

\* a lookup that takes the code from the mode itself
BMP280_getOversamplingRation_unbounded(accuracy) == accuracy + 1
BMP280_getOversamplingRation(accuracy) ==
    CASE accuracy = ACCURACY_ULTRA_LOW -> 1
      [] accuracy = ACCURACY_LOW -> 2
      [] accuracy = ACCURACY_STANDARD -> 3
      [] accuracy = ACCURACY_HIGH -> 4
      [] accuracy = ACCURACY_ULTRA_HIGH -> 5
      [] OTHER -> 1

BME280_getOversamplingRation(accuracy) ==
    CASE accuracy = ACCURACY_ULTRA_LOW -> 1
      [] accuracy = ACCURACY_LOW -> 2
      [] accuracy = ACCURACY_STANDARD -> 3
      [] accuracy = ACCURACY_HIGH -> 4
      [] accuracy = ACCURACY_ULTRA_HIGH -> 5
      [] OTHER -> 1

BMP388_getOversamplingRation(accuracy) ==
    CASE accuracy = ACCURACY_ULTRA_LOW -> 0
      [] accuracy = ACCURACY_LOW -> 1
      [] accuracy = ACCURACY_STANDARD -> 2
      [] accuracy = ACCURACY_HIGH -> 3
      [] accuracy = ACCURACY_ULTRA_HIGH -> 4
      [] accuracy = ACCURACY_HIGHEST -> 5
      [] OTHER -> 0

(***************************************************************************)
(* Calibration coefficients.  c is the decoded struct: c[1] is the first   *)
(* register of the block (COEF_AA for BMP180, COEF_88 for BMP280).         *)
(***************************************************************************)
BMP180_dig_AC1(c) == ToS16(BitOr(Shl(c[1], 8), c[2]))
BMP180_dig_AC2(c) == ToS16(BitOr(Shl(c[3], 8), c[4]))
BMP180_dig_AC3(c) == ToS16(BitOr(Shl(c[5], 8), c[6]))
BMP180_dig_AC4(c) == BitOr(Shl(c[7], 8), c[8])
BMP180_dig_AC5(c) == BitOr(Shl(c[9], 8), c[10])
BMP180_dig_AC6(c) == BitOr(Shl(c[11], 8), c[12])
BMP180_dig_B1(c) == ToS16(BitOr(Shl(c[13], 8), c[14]))
BMP180_dig_B2(c) == ToS16(BitOr(Shl(c[15], 8), c[16]))
BMP180_dig_MB(c) == ToS16(BitOr(Shl(c[17], 8), c[18]))
\* dig_MC read as an unsigned coefficient
BMP180_dig_MC_unsigned(c) == BitOr(Shl(c[19], 8), c[20])
BMP180_dig_MC(c) == ToS16(BitOr(Shl(c[19], 8), c[20]))
BMP180_dig_MD(c) == ToS16(BitOr(Shl(c[21], 8), c[22]))

BMP280_dig_T1(c) == BitOr(Shl(c[2], 8), c[1])
BMP280_dig_T2(c) == ToS16(BitOr(Shl(c[4], 8), c[3]))
\* dig_T3 read as an unsigned coefficient
BMP280_dig_T3_unsigned(c) == BitOr(Shl(c[6], 8), c[5])
BMP280_dig_T3(c) == ToS16(BitOr(Shl(c[6], 8), c[5]))
BMP280_dig_P1(c) == BitOr(Shl(c[8], 8), c[7])
BMP280_dig_P2(c) == ToS16(BitOr(Shl(c[10], 8), c[9]))
BMP280_dig_P3(c) == ToS16(BitOr(Shl(c[12], 8), c[11]))
BMP280_dig_P4(c) == ToS16(BitOr(Shl(c[14], 8), c[13]))
BMP280_dig_P5(c) == ToS16(BitOr(Shl(c[16], 8), c[15]))
BMP280_dig_P6(c) == ToS16(BitOr(Shl(c[18], 8), c[17]))
BMP280_dig_P7(c) == ToS16(BitOr(Shl(c[20], 8), c[19]))
BMP280_dig_P8(c) == ToS16(BitOr(Shl(c[22], 8), c[21]))
BMP280_dig_P9(c) == ToS16(BitOr(Shl(c[24], 8), c[23]))

\* CoeffBME280: c[1..24] are COEF_88..COEF_9F, c[25] is COEF_A1 and
\* c[26..32] are COEF_E1..COEF_E7
BME280_dig_T1(c) == BitOr(Shl(c[2], 8), c[1])
BME280_dig_T2(c) == ToS16(BitOr(Shl(c[4], 8), c[3]))
BME280_dig_T3(c) == ToS16(BitOr(Shl(c[6], 8), c[5]))
BME280_dig_P1(c) == BitOr(Shl(c[8], 8), c[7])
BME280_dig_P2(c) == ToS16(BitOr(Shl(c[10], 8), c[9]))
BME280_dig_P3(c) == ToS16(BitOr(Shl(c[12], 8), c[11]))
BME280_dig_P4(c) == ToS16(BitOr(Shl(c[14], 8), c[13]))
BME280_dig_P5(c) == ToS16(BitOr(Shl(c[16], 8), c[15]))
BME280_dig_P6(c) == ToS16(BitOr(Shl(c[18], 8), c[17]))
BME280_dig_P7(c) == ToS16(BitOr(Shl(c[20], 8), c[19]))
BME280_dig_P8(c) == ToS16(BitOr(Shl(c[22], 8), c[21]))
BME280_dig_P9(c) == ToS16(BitOr(Shl(c[24], 8), c[23]))
BME280_dig_H1(c) == ToU8(c[25])
BME280_dig_H2(c) == ToS16(BitOr(Shl(c[27], 8), c[26]))
BME280_dig_H3(c) == ToU8(c[28])
BME280_dig_H4(c) == ToS16(BitOr(Shl(c[29], 4), BitAnd(c[30], 15)))
BME280_dig_H5(c) == ToS16(BitOr(Shl(c[31], 4), BitAnd(Shr(c[30], 4), 15)))
BME280_dig_H6(c) == ToS8(c[32])

\* checkCoefficient: "nil", or the error, which names the coefficient
\* a check that knows the erased pattern 0x0000 only
checkCoefficient_zero_only(coef, name) ==
    IF coef = 0 THEN name ELSE "nil"
checkCoefficient(coef, name) ==
    IF coef = 0 \/ coef = 65535 THEN name ELSE "nil"

\* the sequence of "err = check...; if err != nil { return err }": the first error
FirstError(checks) ==
    IF \A k \in 1..Len(checks) : checks[k] = "nil" THEN "nil"
    ELSE checks[CHOOSE k \in 1..Len(checks) :
                    /\ checks[k] # "nil"
                    /\ \A j \in 1..(k - 1) : checks[j] = "nil"]

BMP180_IsValidCoefficients(c) ==
    IF c # <<>>
    THEN FirstError(<<
            checkCoefficient(ToU16(BMP180_dig_AC1(c)), "AC1"),
            checkCoefficient(ToU16(BMP180_dig_AC2(c)), "AC2"),
            checkCoefficient(ToU16(BMP180_dig_AC3(c)), "AC3"),
            checkCoefficient(BMP180_dig_AC4(c), "AC4"),
            checkCoefficient(BMP180_dig_AC5(c), "AC5"),
            checkCoefficient(BMP180_dig_AC6(c), "AC6"),
            checkCoefficient(ToU16(BMP180_dig_B1(c)), "B1"),
            checkCoefficient(ToU16(BMP180_dig_B2(c)), "B2"),
            checkCoefficient(ToU16(BMP180_dig_MB(c)), "MB"),
            checkCoefficient(ToU16(BMP180_dig_MC(c)), "MC"),
            checkCoefficient(ToU16(BMP180_dig_MD(c)), "MD") >>)
    ELSE "CoeffBMP180 struct does not built"

BMP280_IsValidCoefficients(c) ==
    IF c # <<>>
    THEN FirstError(<<
            checkCoefficient(BMP280_dig_T1(c), "dig_T1"),
            checkCoefficient(ToU16(BMP280_dig_T2(c)), "dig_T2"),
            checkCoefficient(ToU16(BMP280_dig_T3(c)), "dig_T3"),
            checkCoefficient(BMP280_dig_P1(c), "dig_P1"),
            checkCoefficient(ToU16(BMP280_dig_P2(c)), "dig_P2"),
            checkCoefficient(ToU16(BMP280_dig_P3(c)), "dig_P3"),
            checkCoefficient(ToU16(BMP280_dig_P4(c)), "dig_P4"),
            checkCoefficient(ToU16(BMP280_dig_P5(c)), "dig_P5"),
            checkCoefficient(ToU16(BMP280_dig_P6(c)), "dig_P6"),
            checkCoefficient(ToU16(BMP280_dig_P7(c)), "dig_P7"),
            checkCoefficient(ToU16(BMP280_dig_P8(c)), "dig_P8"),
            checkCoefficient(ToU16(BMP280_dig_P9(c)), "dig_P9") >>)
    ELSE "CoeffBMP280 struct does not build"

\* the humidity coefficients dig_H1..dig_H6 are not among the checks
BME280_IsValidCoefficients(c) ==
    IF c # <<>>
    THEN FirstError(<<
            checkCoefficient(BME280_dig_T1(c), "dig_T1"),
            checkCoefficient(ToU16(BME280_dig_T2(c)), "dig_T2"),
            checkCoefficient(ToU16(BME280_dig_T3(c)), "dig_T3"),
            checkCoefficient(BME280_dig_P1(c), "dig_P1"),
            checkCoefficient(ToU16(BME280_dig_P2(c)), "dig_P2"),
            checkCoefficient(ToU16(BME280_dig_P3(c)), "dig_P3"),
            checkCoefficient(ToU16(BME280_dig_P4(c)), "dig_P4"),
            checkCoefficient(ToU16(BME280_dig_P5(c)), "dig_P5"),
            checkCoefficient(ToU16(BME280_dig_P6(c)), "dig_P6"),
            checkCoefficient(ToU16(BME280_dig_P7(c)), "dig_P7"),
            checkCoefficient(ToU16(BME280_dig_P8(c)), "dig_P8"),
            checkCoefficient(ToU16(BME280_dig_P9(c)), "dig_P9") >>)
    ELSE "CoeffBME280 struct does not build"

\* CoeffBMP388: c[1] is COEF_31, c[21] is COEF_45
BMP388_PAR_T1(c) == ToU16(BitOr(Shl(c[2], 8), c[1]))
BMP388_PAR_T2(c) == ToU16(BitOr(Shl(c[4], 8), c[3]))
BMP388_PAR_T3(c) == ToS8(c[5])
BMP388_PAR_P1(c) == ToS16(BitOr(Shl(c[7], 8), c[6]))
BMP388_PAR_P2(c) == ToS16(BitOr(Shl(c[9], 8), c[8]))
BMP388_PAR_P3(c) == ToS8(c[10])
BMP388_PAR_P4(c) == ToS8(c[11])
BMP388_PAR_P5(c) == ToU16(BitOr(Shl(c[13], 8), c[12]))
BMP388_PAR_P6(c) == ToU16(BitOr(Shl(c[15], 8), c[14]))
BMP388_PAR_P7(c) == ToS8(c[16])
BMP388_PAR_P8(c) == ToS8(c[17])
BMP388_PAR_P9(c) == ToS16(BitOr(Shl(c[19], 8), c[18]))
BMP388_PAR_P10(c) == ToS8(c[20])
BMP388_PAR_P11(c) == ToS8(c[21])

\* a validation that also runs the check of PAR_P4
BMP388_IsValidCoefficients_with_P4(c) ==
    IF c # <<>>
    THEN FirstError(<<
            checkCoefficient(ToU16(BMP388_PAR_T1(c)), "PAR_T1"),
            checkCoefficient(ToU16(BMP388_PAR_T2(c)), "PAR_T2"),
            checkCoefficient(ToU16(BMP388_PAR_T3(c)), "PAR_T3"),
            checkCoefficient(ToU16(BMP388_PAR_P1(c)), "PAR_P1"),
            checkCoefficient(ToU16(BMP388_PAR_P2(c)), "PAR_P2"),
            checkCoefficient(ToU16(BMP388_PAR_P3(c)), "PAR_P3"),
            checkCoefficient(ToU16(BMP388_PAR_P4(c)), "PAR_P4"),
            checkCoefficient(ToU16(BMP388_PAR_P5(c)), "PAR_P5"),
            checkCoefficient(ToU16(BMP388_PAR_P6(c)), "PAR_P6"),
            checkCoefficient(ToU16(BMP388_PAR_P7(c)), "PAR_P7"),
            checkCoefficient(ToU16(BMP388_PAR_P8(c)), "PAR_P8"),
            checkCoefficient(ToU16(BMP388_PAR_P9(c)), "PAR_P9"),
            checkCoefficient(ToU16(BMP388_PAR_P10(c)), "PAR_P10"),
            checkCoefficient(ToU16(BMP388_PAR_P11(c)), "PAR_P11") >>)
    ELSE "CoeffBMP388 struct does not build"
\* the check of PAR_P4 is commented out in the source
BMP388_IsValidCoefficients(c) ==
    IF c # <<>>
    THEN FirstError(<<
            checkCoefficient(ToU16(BMP388_PAR_T1(c)), "PAR_T1"),
            checkCoefficient(ToU16(BMP388_PAR_T2(c)), "PAR_T2"),
            checkCoefficient(ToU16(BMP388_PAR_T3(c)), "PAR_T3"),
            checkCoefficient(ToU16(BMP388_PAR_P1(c)), "PAR_P1"),
            checkCoefficient(ToU16(BMP388_PAR_P2(c)), "PAR_P2"),
            checkCoefficient(ToU16(BMP388_PAR_P3(c)), "PAR_P3"),
            checkCoefficient(ToU16(BMP388_PAR_P5(c)), "PAR_P5"),
            checkCoefficient(ToU16(BMP388_PAR_P6(c)), "PAR_P6"),
            checkCoefficient(ToU16(BMP388_PAR_P7(c)), "PAR_P7"),
            checkCoefficient(ToU16(BMP388_PAR_P8(c)), "PAR_P8"),
            checkCoefficient(ToU16(BMP388_PAR_P9(c)), "PAR_P9"),
            checkCoefficient(ToU16(BMP388_PAR_P10(c)), "PAR_P10"),
            checkCoefficient(ToU16(BMP388_PAR_P11(c)), "PAR_P11") >>)
    ELSE "CoeffBMP388 struct does not build"

\* BMP.IsValidCoefficients: v.bmp.IsValidCoefficients()
IsValidCoefficients(impl, c) ==
    CASE impl = "SensorBMP180" -> BMP180_IsValidCoefficients(c)
      [] impl = "SensorBMP280" -> BMP280_IsValidCoefficients(c)
      [] impl = "SensorBME280" -> BME280_IsValidCoefficients(c)
      [] impl = "SensorBMP388" -> BMP388_IsValidCoefficients(c)

(***************************************************************************)
(* Bus instructions.  A source function is the sequence of instructions it *)
(* issues; after every instruction that can fail the source has            *)
(* "if err != nil { return 0, err }" (see AbortWith).                      *)
(***************************************************************************)
Instr(i, reg, val, n, dst, conv, oss, trig) ==
    [i |-> i, reg |-> reg, val |-> val, n |-> n, dst |-> dst, conv |-> conv,
     oss |-> oss, trig |-> trig]

\* i2c.WriteRegU8(reg, val); trig: the write starts a forced conversion
WriteRegU8(reg, val, trig) == Instr("WriteRegU8", reg, val, 1, "", "", 0, trig)
\* waitForCompletion(v, i2c)
Wait == Instr("waitForCompletion", 0, 0, 0, "", "", 0, FALSE)
\* i2c.ReadRegU8 / ReadRegU16BE / ReadRegBytes of n bytes, assembled into dst
ReadReg(reg, n, dst, conv, oss) == Instr("ReadReg", reg, 0, n, dst, conv, oss, FALSE)
\* i2c.WriteBytes([]byte{start})
WriteBytes(start) == Instr("WriteBytes", start, 0, 1, "", "", 0, FALSE)
\* readDataToStruct(i2c, n, ...): the bytes land at offset val of the struct
ReadDataToStruct(n, off) == Instr("readDataToStruct", 0, off, n, "", "", 0, FALSE)
\* binary.Read(buf, LittleEndian, coeff); v.Coeff = coeff
StoreCoeff == Instr("StoreCoeff", 0, 0, 0, "", "", 0, FALSE)
\* v.bmp.RecognizeSignature(id)
Recognize == Instr("RecognizeSignature", 0, 0, 0, "", "", 0, FALSE)
\* the compensation and the return of the function; dst names the result
Return(fn, oss) == Instr("Return", 0, 0, 0, fn, "", oss, FALSE)
\* a method call on the nil interface value v.bmp
Panic == Instr("Panic", 0, 0, 0, "", "", 0, FALSE)

(***************************************************************************)
(* BMP180                                                                  *)
(***************************************************************************)
BMP180_ReadSensorID == << ReadReg(BMP180_ID_REG, 1, "id", "u8", 0) >>

BMP180_ReadCoefficients ==
    << WriteBytes(BMP180_COEF_START),
       ReadDataToStruct(BMP180_COEF_BYTES, 0),
       StoreCoeff >>

BMP180_readUncompTemp ==
    << WriteRegU8(BMP180_CNTR_MEAS_REG, 47, TRUE),
       Wait,
       ReadReg(BMP180_OUT_MSB_LSB_XLSB, 2, "ut", "u16be", 0) >>

BMP180_readUncompPressure(accuracy) ==
    LET oss == BMP180_getOversamplingRation(accuracy)
    IN  << WriteRegU8(BMP180_CNTR_MEAS_REG, ToU8(52 + ToU8(Shl(oss, 6))), TRUE),
           Wait,
           ReadReg(BMP180_OUT_MSB_LSB_XLSB, 3, "up", "bmp180up", oss) >>

BMP180_ReadTemperatureMult100C(accuracy) ==
    BMP180_readUncompTemp \o BMP180_ReadCoefficients \o << Return("T", 0) >>

\* a pressure read that takes no temperature sample of its own
BMP180_ReadPressureMult10Pa_no_temp(accuracy) ==
    BMP180_readUncompPressure(accuracy)
        \o BMP180_ReadCoefficients
        \o << Return("P", BMP180_getOversamplingRation(accuracy)) >>
\* oss, readUncompTemp, readUncompPressure, ReadCoefficients, the formula
BMP180_ReadPressureMult10Pa(accuracy) ==
    BMP180_readUncompTemp \o BMP180_readUncompPressure(accuracy)
        \o BMP180_ReadCoefficients
        \o << Return("P", BMP180_getOversamplingRation(accuracy)) >>

BMP180_ReadHumidityMultQ2210(accuracy) == << Return("unsupported", 0) >>

(***************************************************************************)
(* BMP280                                                                  *)
(***************************************************************************)
BMP280_ReadSensorID == << ReadReg(BMP280_ID_REG, 1, "id", "u8", 0) >>

BMP280_ReadCoefficients ==
    << WriteBytes(BMP280_COEF_START),
       ReadDataToStruct(BMP280_COEF_BYTES, 0),
       StoreCoeff >>

BMP280_readUncompTemprature(accuracy) ==
    LET power == 1
        osrt == BMP280_getOversamplingRation(accuracy)
    IN  << WriteRegU8(BMP280_CNTR_MEAS_REG, BitOr(power, ToU8(Shl(osrt, 5))), TRUE),
           Wait,
           ReadReg(BMP280_TEMP_OUT_MSB_LSB_XLSB, 3, "ut", "msb20", 0) >>

BMP280_readUncompTempratureAndPressure(accuracy) ==
    LET power == 1
        osrt == BMP280_getOversamplingRation(ACCURACY_STANDARD)
        osrp == BMP280_getOversamplingRation(accuracy)
    IN  << WriteRegU8(BMP280_CNTR_MEAS_REG,
                      BitOr(BitOr(power, ToU8(Shl(osrt, 5))), ToU8(Shl(osrp, 2))), TRUE),
           Wait,
           ReadReg(BMP280_TEMP_OUT_MSB_LSB_XLSB, 3, "ut", "msb20", 0),
           ReadReg(BMP280_PRESS_OUT_MSB_LSB_XLSB, 3, "up", "msb20", 0) >>

\* a read that computes from the coefficients NewBMP left in v.Coeff
BMP280_ReadTemperatureMult100C_cached(accuracy) ==
    BMP280_readUncompTemprature(accuracy) \o << Return("T", 0) >>
BMP280_ReadTemperatureMult100C(accuracy) ==
    BMP280_readUncompTemprature(accuracy) \o BMP280_ReadCoefficients
        \o << Return("T", 0) >>

BMP280_ReadPressureMult10Pa(accuracy) ==
    BMP280_readUncompTempratureAndPressure(accuracy) \o BMP280_ReadCoefficients
        \o << Return("P", 0) >>

BMP280_ReadHumidityMultQ2210(accuracy) == << Return("unsupported", 0) >>

(***************************************************************************)
(* BME280                                                                  *)
(***************************************************************************)
BME280_ReadSensorID == << ReadReg(BME280_ID_REG, 1, "id", "u8", 0) >>

BME280_ReadCoefficients ==
    << WriteBytes(BME280_COEF_PART1_START),
       ReadDataToStruct(BME280_COEF_PART1_BYTES, 0),
       WriteBytes(BME280_COEF_PART2_START),
       ReadDataToStruct(BME280_COEF_PART2_BYTES, BME280_COEF_PART1_BYTES),
       WriteBytes(BME280_COEF_PART3_START),
       ReadDataToStruct(BME280_COEF_PART3_BYTES,
                        BME280_COEF_PART1_BYTES + BME280_COEF_PART2_BYTES),
       StoreCoeff >>

BME280_readUncompTemprature(accuracy) ==
    LET power == 1
        osrt == BME280_getOversamplingRation(accuracy)
    IN  << WriteRegU8(BME280_CTRL_MEAS, BitOr(power, ToU8(Shl(osrt, 5))), TRUE),
           Wait,
           ReadReg(BME280_TEMP_OUT_MSB_LSB_XLSB, 3, "ut", "msb20", 0) >>

\* the humidity oversampling written before the measurement is triggered
BME280_readUncompHumidity_hum_first(accuracy) ==
    LET power == 1
        osrt == BME280_getOversamplingRation(accuracy)
        osrh == BME280_getOversamplingRation(ACCURACY_ULTRA_LOW)
    IN  << WriteRegU8(BME280_CTRL_HUM, osrh, FALSE),
           Wait,
           WriteRegU8(BME280_CTRL_MEAS, BitOr(power, ToU8(Shl(osrt, 5))), TRUE),
           Wait,
           ReadReg(BME280_HUM_OUT_MSB_LSB, 2, "uh", "u16be", 0) >>
BME280_readUncompHumidity(accuracy) ==
    LET power == 1
        osrt == BME280_getOversamplingRation(accuracy)
        osrh == BME280_getOversamplingRation(ACCURACY_ULTRA_LOW)
    IN  << WriteRegU8(BME280_CTRL_MEAS, BitOr(power, ToU8(Shl(osrt, 5))), TRUE),
           Wait,
           WriteRegU8(BME280_CTRL_HUM, osrh, FALSE),
           Wait,
           ReadReg(BME280_HUM_OUT_MSB_LSB, 2, "uh", "u16be", 0) >>

BME280_readUncompTempratureAndPressure(accuracy) ==
    LET power == 1
        osrt == BME280_getOversamplingRation(ACCURACY_STANDARD)
        osrp == BME280_getOversamplingRation(accuracy)
    IN  << WriteRegU8(BME280_CTRL_MEAS,
                      BitOr(BitOr(power, ToU8(Shl(osrt, 5))), ToU8(Shl(osrp, 2))), TRUE),
           Wait,
           ReadReg(BME280_TEMP_OUT_MSB_LSB_XLSB, 3, "ut", "msb20", 0),
           ReadReg(BME280_PRESS_OUT_MSB_LSB_XLSB, 3, "up", "msb20", 0) >>

BME280_ReadTemperatureMult100C(accuracy) ==
    BME280_readUncompTemprature(accuracy) \o BME280_ReadCoefficients
        \o << Return("T", 0) >>

BME280_ReadPressureMult10Pa(accuracy) ==
    BME280_readUncompTempratureAndPressure(accuracy) \o BME280_ReadCoefficients
        \o << Return("P", 0) >>

BME280_ReadHumidityMultQ2210(accuracy) ==
    BME280_readUncompTemprature(accuracy) \o BME280_readUncompHumidity(accuracy)
        \o BME280_ReadCoefficients \o << Return("H", 0) >>

(***************************************************************************)
(* BMP388                                                                  *)
(***************************************************************************)
BMP388_ReadSensorID == << ReadReg(BMP388_ID_REG, 1, "id", "u8", 0) >>

BMP388_ReadCoefficients ==
    << WriteBytes(BMP388_COEF_START),
       ReadDataToStruct(BMP388_COEF_BYTES, 0),
       StoreCoeff >>

BMP388_readUncompTemprature(accuracy) ==
    LET osrt == BMP388_getOversamplingRation(accuracy)
        power == BitOr(Shl(BMP388_PWR_MODE_FORCED, 4), 3)
    IN  << WriteRegU8(BMP388_CONFIG, ToU8(Shl(BMP388_coef_0, 1)), FALSE),
           WriteRegU8(BMP388_OSR_REG, ToU8(Shl(osrt, 3)), FALSE),
           WriteRegU8(BMP388_PWR_CTRL_REG, power, TRUE),
           Wait,
           ReadReg(BMP388_TEMP_OUT_MSB_LSB_XLSB, 3, "ut", "lsb24", 0) >>

BMP388_readUncompTempratureAndPressure(accuracy) ==
    LET power == BitOr(Shl(BMP388_PWR_MODE_FORCED, 4), 3)
        osrt == BMP388_getOversamplingRation(ACCURACY_STANDARD)
        osrp == BMP388_getOversamplingRation(accuracy)
    IN  << WriteRegU8(BMP388_PWR_CTRL_REG, power, TRUE),
           Wait,
           WriteRegU8(BMP388_OSR_REG, BitOr(ToU8(Shl(osrt, 3)), osrp), FALSE),
           Wait,
           ReadReg(BMP388_TEMP_OUT_MSB_LSB_XLSB, 3, "ut", "lsb24", 0),
           ReadReg(BMP388_PRES_OUT_MSB_LSB_XLSB, 3, "up", "lsb24", 0) >>

BMP388_ReadTemperatureMult100C(accuracy) ==
    BMP388_readUncompTemprature(accuracy) \o BMP388_ReadCoefficients
        \o << Return("T", 0) >>

BMP388_ReadPressureMult10Pa(accuracy) ==
    BMP388_readUncompTempratureAndPressure(accuracy) \o BMP388_ReadCoefficients
        \o << Return("P", 0) >>

BMP388_ReadHumidityMultQ2210(accuracy) == << Return("unsupported", 0) >>

(***************************************************************************)
(* Dispatch through SensorInterface (bmp.go).                              *)
(***************************************************************************)
\* the switch of NewBMP: the variant implementation of a sensor type
Implementation(t) ==
    CASE t = BMP180 -> "SensorBMP180"
      [] t = BMP280 -> "SensorBMP280"
      [] t = BME280 -> "SensorBME280"
      [] t = BMP388 -> "SensorBMP388"
      [] OTHER -> "nil"

ReadSensorID(impl) ==
    CASE impl = "SensorBMP180" -> BMP180_ReadSensorID
      [] impl = "SensorBMP280" -> BMP280_ReadSensorID
      [] impl = "SensorBME280" -> BME280_ReadSensorID
      [] impl = "SensorBMP388" -> BMP388_ReadSensorID

ReadCoefficients(impl) ==
    CASE impl = "SensorBMP180" -> BMP180_ReadCoefficients
      [] impl = "SensorBMP280" -> BMP280_ReadCoefficients
      [] impl = "SensorBME280" -> BME280_ReadCoefficients
      [] impl = "SensorBMP388" -> BMP388_ReadCoefficients

ReadTemperatureMult100C(impl, accuracy) ==
    CASE impl = "SensorBMP180" -> BMP180_ReadTemperatureMult100C(accuracy)
      [] impl = "SensorBMP280" -> BMP280_ReadTemperatureMult100C(accuracy)
      [] impl = "SensorBME280" -> BME280_ReadTemperatureMult100C(accuracy)
      [] impl = "SensorBMP388" -> BMP388_ReadTemperatureMult100C(accuracy)

ReadPressureMult10Pa(impl, accuracy) ==
    CASE impl = "SensorBMP180" -> BMP180_ReadPressureMult10Pa(accuracy)
      [] impl = "SensorBMP280" -> BMP280_ReadPressureMult10Pa(accuracy)
      [] impl = "SensorBME280" -> BME280_ReadPressureMult10Pa(accuracy)
      [] impl = "SensorBMP388" -> BMP388_ReadPressureMult10Pa(accuracy)

ReadHumidityMultQ2210(impl, accuracy) ==
    CASE impl = "SensorBMP180" -> BMP180_ReadHumidityMultQ2210(accuracy)
      [] impl = "SensorBMP280" -> BMP280_ReadHumidityMultQ2210(accuracy)
      [] impl = "SensorBME280" -> BME280_ReadHumidityMultQ2210(accuracy)
      [] impl = "SensorBMP388" -> BMP388_ReadHumidityMultQ2210(accuracy)

\* a constructor that reads the calibration block before it looks at the id
NewBMP_body_calibration_first(impl) ==
    IF impl = "nil" THEN << Panic >>
    ELSE ReadCoefficients(impl) \o ReadSensorID(impl) \o << Recognize >>
            \o << Return("handle", 0) >>
\* NewBMP after the switch: v.ReadSensorID, RecognizeSignature, ReadCoefficients
NewBMP_body(impl) ==
    IF impl = "nil" THEN << Panic >>
    ELSE ReadSensorID(impl) \o << Recognize >> \o ReadCoefficients(impl)
            \o << Return("handle", 0) >>

TemperatureOps == {"ReadTemperatureMult100C", "ReadTemperatureC"}
PressureOps == {"ReadPressureMult10Pa", "ReadPressurePa", "ReadPressureMmHg",
                "ReadAltitude"}
HumidityOps == {"ReadHumidityMultQ2210", "ReadHumidityRH"}
ReadOps == TemperatureOps \cup PressureOps \cup HumidityOps

\* the instructions of public operation name on implementation impl
ProgramOf(impl, name, accuracy) ==
    CASE name = "NewBMP" -> NewBMP_body(impl)
      [] name \in TemperatureOps -> ReadTemperatureMult100C(impl, accuracy)
      [] name \in PressureOps -> ReadPressureMult10Pa(impl, accuracy)
      [] name \in HumidityOps -> ReadHumidityMultQ2210(impl, accuracy)

(***************************************************************************)
(* Values.  Errors are [e, at]; a numeric result is the literal zero or    *)
(* the compensation polynomial applied to the raw counts and the           *)
(* calibration set it was computed from.                                   *)
(***************************************************************************)
NilErr == [e |-> "nil", at |-> 0]
\* the transport error returned by the bus operation that is the n-th event of the call
I2CErr(n) == [e |-> "i2c", at |-> n]
\* fmt.Sprintf("signature 0x%x doesn't belong to ... series", signature)
SignatureErr(signature) == [e |-> "signature", at |-> signature]

Zero ==
    [fn |-> "0", impl |-> "", ut |-> 0, up |-> 0, uh |-> 0, oss |-> 0,
     coeff |-> <<>>, conv |-> ""]

\* the compensation of the variant: a function of the raw counts it reads, the
\* oversampling code (BMP180 pressure) and the coefficients of v.Coeff
Compensation(fn, impl, l, oss, c) ==
    [fn |-> fn, impl |-> impl, ut |-> l.ut,
     up |-> IF fn = "P" THEN l.up ELSE 0,
     uh |-> IF fn = "H" THEN l.uh ELSE 0,
     oss |-> oss, coeff |-> c, conv |-> ""]

\* the decoded calibration set of the BMP180
BMP180_Coeff(c) ==
    [AC1 |-> BMP180_dig_AC1(c), AC2 |-> BMP180_dig_AC2(c), AC3 |-> BMP180_dig_AC3(c),
     AC4 |-> BMP180_dig_AC4(c), AC5 |-> BMP180_dig_AC5(c), AC6 |-> BMP180_dig_AC6(c),
     B1 |-> BMP180_dig_B1(c), B2 |-> BMP180_dig_B2(c), MB |-> BMP180_dig_MB(c),
     MC |-> BMP180_dig_MC(c), MD |-> BMP180_dig_MD(c)]

\* the decoded calibration set of the BMP280 and of the BME280
BMP280_Coeff(c) ==
    [T1 |-> BMP280_dig_T1(c), T2 |-> BMP280_dig_T2(c), T3 |-> BMP280_dig_T3(c),
     P1 |-> BMP280_dig_P1(c), P2 |-> BMP280_dig_P2(c), P3 |-> BMP280_dig_P3(c),
     P4 |-> BMP280_dig_P4(c), P5 |-> BMP280_dig_P5(c), P6 |-> BMP280_dig_P6(c),
     P7 |-> BMP280_dig_P7(c), P8 |-> BMP280_dig_P8(c), P9 |-> BMP280_dig_P9(c)]
BME280_Coeff(c) ==
    [T1 |-> BME280_dig_T1(c), T2 |-> BME280_dig_T2(c), T3 |-> BME280_dig_T3(c),
     P1 |-> BME280_dig_P1(c), P2 |-> BME280_dig_P2(c), P3 |-> BME280_dig_P3(c),
     P4 |-> BME280_dig_P4(c), P5 |-> BME280_dig_P5(c), P6 |-> BME280_dig_P6(c),
     P7 |-> BME280_dig_P7(c), P8 |-> BME280_dig_P8(c), P9 |-> BME280_dig_P9(c),
     H1 |-> BME280_dig_H1(c), H2 |-> BME280_dig_H2(c), H3 |-> BME280_dig_H3(c),
     H4 |-> BME280_dig_H4(c), H5 |-> BME280_dig_H5(c), H6 |-> BME280_dig_H6(c)]

\* what a compensation returns: the value (bytes of the result type), the
\* error, whether it reached its division, and a runtime panic
Computed(val, divided) ==
    [val |-> val, err |-> "nil", divided |-> divided, panic |-> FALSE,
     var1 |-> <<>>, v_x1 |-> <<>>]
DivideByZero ==
    [val |-> <<>>, err |-> "nil", divided |-> TRUE, panic |-> TRUE,
     var1 |-> <<>>, v_x1 |-> <<>>]

\* tFine := var1 + var2 of the BMP280 and BME280 (int32)
BMP280_tFine(ut, d) ==
    LET T1 == WFrom(4, d.T1)
        var1 == WSar(WMul(WSub(WSar(WFrom(4, ut), 3), WShl(T1, 1)), WFrom(4, d.T2)), 11)
        dt == WSub(WSar(WFrom(4, ut), 4), T1)
        var2 == WSar(WMul(WSar(WMul(dt, dt), 12), WFrom(4, d.T3)), 14)
    IN  WAdd(var1, var2)

\* t := (tFine*5 + 128) >> 8
BMP280_Temperature(ut, d) ==
    Computed(WSar(WAdd(WMul(BMP280_tFine(ut, d), WFrom(4, 5)), WFrom(4, 128)), 8), FALSE)

\* a compensation without the test of var1
BMP280_var1_zero_unchecked(var1) == FALSE
\* if var1 == 0 { return 0, nil }
BMP280_var1_zero(var1) == var1 = WZero(8)

\* the pressure compensation of the BMP280 and BME280 (int64, result uint32)
BMP280_Pressure(ut, up, d) ==
    LET P(x) == WFrom(8, x)
        a == WSub(WSigned(8, BMP280_tFine(ut, d)), P(128000))
        b == WAdd(WAdd(WMul(WMul(a, a), P(d.P6)), WShl(WMul(a, P(d.P5)), 17)),
                  WShl(P(d.P4), 35))
        e == WAdd(WSar(WMul(WMul(a, a), P(d.P3)), 8), WShl(WMul(a, P(d.P2)), 12))
        var1 == WSar(WMul(WAdd(WShl(P(1), 47), e), P(d.P1)), 33)
    IN  IF BMP280_var1_zero(var1)
        THEN [Computed(WZero(4), FALSE) EXCEPT !.var1 = var1]
        ELSE IF var1 = WZero(8) THEN [DivideByZero EXCEPT !.var1 = var1]
        ELSE LET p1 == WQuo(WMul(WSub(WShl(WSub(P(1048576), P(up)), 31), b), P(3125)),
                            var1)
                 f == WSar(WMul(WMul(P(d.P9), WSar(p1, 13)), WSar(p1, 13)), 25)
                 g == WSar(WMul(P(d.P8), p1), 19)
                 p == WAdd(WSar(WAdd(WAdd(p1, f), g), 8), WShl(P(d.P7), 4))
                 p2 == WQuo(WMul(p, P(10)), P(256))
             IN  [Computed(SubSeq(p2, 1, 4), TRUE) EXCEPT !.var1 = var1]

\* a compensation that shifts v_x1 as it is
BME280_clamp_none(v) == v
\* if v_x1 < 0 { v_x1 = 0 } else if v_x1 > 419430400 { v_x1 = 419430400 }
BME280_clamp(v) ==
    IF WLess(v, WZero(4)) THEN WZero(4)
    ELSE IF WLess(WFrom(4, 419430400), v) THEN WFrom(4, 419430400)
    ELSE v

\* the humidity compensation of the BME280 (int32, result uint32)
BME280_Humidity(ut, uh, d) ==
    LET I(x) == WFrom(4, x)
        v0 == WSub(BMP280_tFine(ut, d), I(76800))
        a == WSar(WAdd(WSub(WSub(WShl(I(uh), 14), WShl(I(d.H4), 20)),
                            WMul(I(d.H5), v0)), I(16384)), 15)
        b == WAdd(WSar(WMul(WSar(WMul(v0, I(d.H6)), 10),
                            WAdd(WSar(WMul(v0, I(d.H3)), 11), I(32768))), 10),
                  I(2097152))
        v1 == WMul(a, WSar(WAdd(WMul(b, I(d.H2)), I(8192)), 14))
        v2 == WSub(v1, WSar(WMul(WSar(WMul(WSar(v1, 15), WSar(v1, 15)), 7),
                                 I(d.H1)), 4))
    IN  [Computed(WSar(BME280_clamp(v2), 12), FALSE) EXCEPT !.v_x1 = v2]

\* b5 := x1 + x2 of the BMP180 (int32); <<>> when x1 + MD is zero
BMP180_b5(ut, d) ==
    LET I(x) == WFrom(4, x)
        x1 == WSar(WMul(WSub(I(ut), I(d.AC6)), I(d.AC5)), 15)
        den == WAdd(x1, I(d.MD))
    IN  IF den = WZero(4) THEN <<>>
        ELSE WAdd(x1, WQuo(WShl(I(d.MC), 11), den))

\* t := ((b5 + 8) >> 4) * 10
BMP180_Temperature(ut, d) ==
    LET b5 == BMP180_b5(ut, d)
    IN  IF b5 = <<>> THEN DivideByZero
        ELSE Computed(WMul(WSar(WAdd(b5, WFrom(4, 8)), 4), WFrom(4, 10)), TRUE)

\* a division that doubles the quotient where the code doubles the dividend
BMP180_p1_low_late(b7, b4) == WMul(WUQuo(b7, b4), WFrom(4, 2))
\* p1 = int32((b7 * 2) / b4), the branch of b7 < 0x80000000
BMP180_p1_low(b7, b4) == WUQuo(WMul(b7, WFrom(4, 2)), b4)
\* p1 = int32((b7 / b4) * 2), the other branch
BMP180_p1_high(b7, b4) == WMul(WUQuo(b7, b4), WFrom(4, 2))

\* the pressure compensation of the BMP180 (int32 and uint32)
BMP180_Pressure(ut, up, oss, d) ==
    LET I(x) == WFrom(4, x)
        b5 == BMP180_b5(ut, d)
        b6 == WSub(b5, I(4000))
        x1 == WSar(WMul(I(d.B2), WSar(WMul(b6, b6), 12)), 11)
        x2 == WSar(WMul(I(d.AC2), b6), 11)
        b3 == WQuo(WAdd(WShl(WAdd(WMul(I(d.AC1), I(4)), WAdd(x1, x2)), oss), I(2)), I(4))
        y1 == WSar(WMul(I(d.AC3), b6), 13)
        y2 == WSar(WSar(WMul(I(d.B1), WMul(b6, b6)), 12), 16)
        x3 == WSar(WAdd(WAdd(y1, y2), I(2)), 2)
        b4 == WShr(WMul(I(d.AC4), WAdd(x3, I(32768))), 15)
        b7 == WMul(WSub(I(up), b3), WShr(I(50000), oss))
        p1 == IF ~WIsNeg(b7) THEN BMP180_p1_low(b7, b4) ELSE BMP180_p1_high(b7, b4)
        z1 == WSar(WMul(WMul(WSar(p1, 8), WSar(p1, 8)), I(3038)), 16)
        z2 == WSar(WMul(I(-7357), p1), 16)
        p2 == WAdd(p1, WSar(WAdd(WAdd(z1, z2), I(3791)), 4))
    IN  IF b5 = <<>> \/ b4 = WZero(4) THEN DivideByZero
        ELSE Computed(WMul(p2, I(10)), TRUE)

\* the number a compensation term stands for
\* the divisor written in the source, 4294967269 = 2^32 - 27 (int64)
BMP388_divisor == WSub(WShl(WFrom(8, 1), 32), WFrom(8, 27))

\* partial_data5 of the BMP388 (int64), the same statements in
\* ReadTemperatureMult100C and in ReadPressureMult10Pa (partial_data5_t)
BMP388_partial_data5(ut, c) ==
    LET partial_data1 ==
            WSigned(8, WSub(WFrom(4, ut), WMul(WFrom(4, 256), WFrom(4, BMP388_PAR_T1(c)))))
        partial_data2 == WMul(WFrom(8, BMP388_PAR_T2(c)), partial_data1)
        partial_data3 == WMul(partial_data1, partial_data1)
        partial_data4 == WMul(partial_data3, WFrom(8, BMP388_PAR_T3(c)))
    IN  WAdd(WMul(partial_data2, WFrom(8, 262144)), partial_data4)

\* partial_data6 := partial_data5 / 4294967269 of ReadTemperatureMult100C
BMP388_partial_data6(ut, c) == WQuo(BMP388_partial_data5(ut, c), BMP388_divisor)

\* t_lin := partial_data6_t of ReadPressureMult10Pa
BMP388_t_lin(ut, c) == WQuo(BMP388_partial_data5(ut, c), BMP388_divisor)

\* t := int32(partial_data6 * 25 / 16384)
BMP388_Temperature(ut, c) ==
    Computed(SubSeq(WQuo(WMul(BMP388_partial_data6(ut, c), WFrom(8, 25)),
                         WFrom(8, 16384)), 1, 4), TRUE)

Evaluate(t) ==
    CASE t.impl = "SensorBMP180" /\ t.fn = "T" ->
            BMP180_Temperature(t.ut, BMP180_Coeff(t.coeff))
      [] t.impl = "SensorBMP180" /\ t.fn = "P" ->
            BMP180_Pressure(t.ut, t.up, t.oss, BMP180_Coeff(t.coeff))
      [] t.impl = "SensorBMP280" /\ t.fn = "T" ->
            BMP280_Temperature(t.ut, BMP280_Coeff(t.coeff))
      [] t.impl = "SensorBMP280" /\ t.fn = "P" ->
            BMP280_Pressure(t.ut, t.up, BMP280_Coeff(t.coeff))
      [] t.impl = "SensorBME280" /\ t.fn = "T" ->
            BMP280_Temperature(t.ut, BME280_Coeff(t.coeff))
      [] t.impl = "SensorBME280" /\ t.fn = "P" ->
            BMP280_Pressure(t.ut, t.up, BME280_Coeff(t.coeff))
      [] t.impl = "SensorBME280" /\ t.fn = "H" ->
            BME280_Humidity(t.ut, t.uh, BME280_Coeff(t.coeff))
      [] t.impl = "SensorBMP388" /\ t.fn = "T" ->
            BMP388_Temperature(t.ut, t.coeff)

\* float32 conversions of the facade
Convert(conv, val) == [val EXCEPT !.conv = conv]

\* assembling the bytes of an output register read
Assemble(conv, buf, oss) ==
    CASE conv = "u8" -> buf[1]
      [] conv = "u16be" -> Shl(buf[1], 8) + buf[2]
      [] conv = "bmp180up" -> Shr(Shl(buf[1], 16) + Shl(buf[2], 8) + buf[3], 8 - oss)
      [] conv = "msb20" -> Shl(buf[1], 12) + Shl(buf[2], 4) + Shr(BitAnd(buf[3], 240), 4)
      [] conv = "lsb24" -> buf[1] + Shl(buf[2], 8) + Shl(buf[3], 16)

\* what the sensor method returns: (value, error) and, for humidity, supported
SensorReturn(val, err, supported) ==
    [val |-> val, err |-> err, supported |-> supported]

\* the methods of BMP applied to what the sensor method returned
Facade(name, r) ==
    CASE name \in {"ReadTemperatureMult100C", "ReadPressureMult10Pa",
                   "ReadHumidityMultQ2210"} -> r
      [] name = "ReadTemperatureC" ->
            IF r.err # NilErr THEN SensorReturn(Zero, r.err, FALSE)
            ELSE SensorReturn(Convert("float32/100", r.val), NilErr, FALSE)
      [] name = "ReadPressurePa" ->
            IF r.err # NilErr THEN SensorReturn(Zero, r.err, FALSE)
            ELSE SensorReturn(Convert("float32/10", r.val), r.err, FALSE)
      [] name = "ReadPressureMmHg" ->
            IF r.err # NilErr THEN SensorReturn(Zero, r.err, FALSE)
            ELSE SensorReturn(Convert("mmHg", r.val), NilErr, FALSE)
      [] name = "ReadAltitude" ->
            IF r.err # NilErr THEN SensorReturn(Zero, r.err, FALSE)
            ELSE SensorReturn(Convert("altitude", r.val), NilErr, FALSE)
      [] name = "ReadHumidityRH" ->
            IF ~r.supported THEN SensorReturn(Zero, NilErr, r.supported)
            ELSE IF r.err # NilErr THEN SensorReturn(Zero, r.err, r.supported)
            ELSE SensorReturn(Convert("float32/1024", r.val), NilErr, r.supported)

\* the result record of an operation
Result(r, nonnil, panic) ==
    [val |-> r.val, err |-> r.err, supported |-> r.supported,
     nonnil |-> nonnil, panic |-> panic]

(***************************************************************************)
(* What the bus may deliver.                                               *)
(***************************************************************************)
\* identity register contents
SignatureBytes == {0, 80, 85, 86, 88, 96, 255}
\* status register contents
StatusBytes == {0, 8, 32, 64, 96, 128, 255}

\* output register contents
Sample(k) == << (108 + 18 * k) % 256, (250 + 243 * k) % 256, ((k \div 2) * 128) % 256 >>
SampleBufs(n) == { SubSeq(Sample(k), 1, n) : k \in 0..(NumSamples - 1) }

EncodeBE16(words) ==
    [j \in 1..(2 * Len(words)) |->
        IF j % 2 = 1 THEN ToU16(words[(j + 1) \div 2]) \div 256
        ELSE ToU16(words[j \div 2]) % 256]
EncodeLE16(words) ==
    [j \in 1..(2 * Len(words)) |->
        IF j % 2 = 1 THEN ToU16(words[(j + 1) \div 2]) % 256
        ELSE ToU16(words[j \div 2]) \div 256]

\* calibration memories with every coefficient programmed
GoodWordsBMP180 == <<408, -72, -14383, 32741, 32757, 23153, 6190, 4, -32768, -8711, 2868>>
GoodWordsBMP280 == <<27504, 26435, -1000, 36477, -10685, 3024, 2855, 140, -7, 15500,
                     -14600, 6000>>
GoodBlock(impl) ==
    CASE impl = "SensorBMP180" -> EncodeBE16(GoodWordsBMP180)
      [] impl = "SensorBMP280" -> EncodeLE16(GoodWordsBMP280)
      [] impl = "SensorBME280" ->
            EncodeLE16(GoodWordsBMP280) \o <<75>> \o <<106, 1, 0, 19, 45, 3, 30>>
      [] impl = "SensorBMP388" ->
            <<54, 107, 250, 73, 246, 118, 2, 249, 245, 35, 0, 105, 98, 152, 116, 3,
              250, 66, 63, 15, 196>>

\* block b with its k-th 16-bit coefficient replaced by the pattern of bytes x, x
WithPattern(b, k, x) ==
    [j \in 1..Len(b) |-> IF j \in {2 * k - 1, 2 * k} THEN x ELSE b[j]]

\* the k-th calibration memory: the programmed one, then memories with one
\* coefficient erased (0x0000 for even k, 0xFFFF for odd k)
DeviceBlock(impl, k) ==
    IF k = 1 THEN GoodBlock(impl)
    ELSE WithPattern(GoodBlock(impl), k - 1, IF k % 2 = 0 THEN 0 ELSE 255)

(***************************************************************************)
(* The state machine of one caller using the library.                      *)
(***************************************************************************)
\* the activation record of waitForCompletion
W0 == [i |-> 0, polls |-> 0, sleeps |-> 0, result |-> "none"]
\* polls and sleeps since the last trigger write whose output is still unread
Since0 == [polls |-> 0, sleeps |-> 0, armed |-> FALSE]
Locals0 == [id |-> 0, ut |-> 0, up |-> 0, uh |-> 0, arr |-> <<>>]
Ret0 == Result(SensorReturn(Zero, NilErr, FALSE), FALSE, FALSE)
NoInput == [fn |-> "none"]
NoKept == [op |-> [name |-> "none", accuracy |-> 0], ret |-> Ret0]

Ev(k, reg, val, ok) == [k |-> k, reg |-> reg, val |-> val, ok |-> ok]

instr == ProgramOf(bmp, op.name, op.accuracy)[pc]
Running(i) == status = "running" /\ instr.i = i

persistVars == <<sensorType, bmp, Coeff, handle, device>>

\* no handle built and no operation called yet
Idle ==
    /\ sensorType = BMP180
    /\ bmp = "nil"
    /\ Coeff = <<>>
    /\ handle = FALSE
    /\ device = 1
    /\ status = "idle"
    /\ op = [name |-> "none", accuracy |-> 0]
    /\ pc = 0
    /\ w = W0
    /\ since = Since0
    /\ locals = Locals0
    /\ trace = <<>>
    /\ timedOut = FALSE
    /\ erro = NilErr
    /\ ret = Ret0
    /\ kept = NoKept

Init ==
    /\ Idle
    /\ inp = NoInput
    /\ out = NoInput

\* entry of a public operation
StartOp(name, accuracy) ==
    /\ status \in {"idle", "done"}
    /\ op' = [name |-> name, accuracy |-> accuracy]
    /\ status' = "running"
    /\ pc' = 1
    /\ w' = W0
    /\ since' = Since0
    /\ locals' = Locals0
    /\ trace' = <<>>
    /\ timedOut' = FALSE
    /\ erro' = NilErr
    /\ ret' = Ret0
    /\ UNCHANGED pureVars

\* NewBMP(sensorType, i2c): the switch on sensorType and the new BMP value
NewBMP ==
    \E t \in 0..MaxSensorType, d \in 1..NumBlocks :
        /\ StartOp("NewBMP", 0)
        /\ device' = d
        /\ kept' = NoKept
        /\ sensorType' = t
        /\ bmp' = Implementation(t)
        /\ Coeff' = <<>>
        /\ handle' = FALSE

\* a Read* method called on the handle NewBMP returned
CallRead ==
    \E name \in ReadOps, accuracy \in 0..MaxAccuracy :
        /\ handle
        /\ StartOp(name, accuracy)
        /\ kept' = NoKept
        /\ UNCHANGED persistVars

\* the caller keeps the result of a read that observed the ready condition and
\* calls the same method again with the same accuracy
RepeatRead ==
    /\ status = "done"
    /\ handle
    /\ op.name \in ReadOps
    /\ erro = NilErr
    /\ ~timedOut
    /\ kept' = [op |-> op, ret |-> ret]
    /\ StartOp(op.name, op.accuracy)
    /\ UNCHANGED persistVars

\* error paths that report the quantity as not supported
ErrorReturn_unsupported(name, e) ==
    IF name = "NewBMP" THEN Result(SensorReturn(Zero, e, FALSE), FALSE, FALSE)
    ELSE Result(Facade(name, SensorReturn(Zero, e, FALSE)), FALSE, FALSE)
\* what an operation returns when a step of it returned the error e
ErrorReturn(name, e) ==
    IF name = "NewBMP" THEN Result(SensorReturn(Zero, e, FALSE), FALSE, FALSE)
    ELSE Result(Facade(name, SensorReturn(Zero, e, name \in HumidityOps)), FALSE, FALSE)

\* a caller that notes the error and tries the same instruction again
AbortWith_retry(e) ==
    /\ erro' = e
    /\ UNCHANGED <<persistVars, status, ret, op, pc, locals, timedOut, auxVars>>
\* if err != nil { return 0, err } at every level up to the caller
AbortWith(e) ==
    /\ erro' = e
    /\ ret' = ErrorReturn(op.name, e)
    /\ status' = "done"
    /\ UNCHANGED <<persistVars, op, pc, locals, timedOut, auxVars>>

\* the next instruction of the function
Continue ==
    /\ pc' = pc + 1
    /\ UNCHANGED <<status, op, erro, ret, auxVars>>

\* i2c.WriteRegU8(reg, val)
WriteStep ==
    /\ Running("WriteRegU8")
    /\ w' = W0
    /\ \/ /\ trace' = Append(trace, Ev("write", instr.reg, instr.val, TRUE))
          /\ since' = IF instr.trig THEN [Since0 EXCEPT !.armed = TRUE] ELSE since
          /\ Continue
          /\ UNCHANGED <<persistVars, locals, timedOut>>
       \/ /\ trace' = Append(trace, Ev("write", instr.reg, instr.val, FALSE))
          /\ since' = since
          /\ AbortWith(I2CErr(Len(trace) + 1))

\* a loop that admits one more attempt
waitForCompletion_cond_inclusive(i) == i <= PollAttempts
\* the loop condition of waitForCompletion
waitForCompletion_cond(i) == i < PollAttempts

\* one iteration of waitForCompletion: IsBusy, then either the return or
\* time.Sleep(5 * time.Millisecond) and i++
Poll ==
    /\ Running("waitForCompletion")
    /\ waitForCompletion_cond(w.i)
    /\ \/ \E b \in StatusBytes :
            /\ IF IsBusy(bmp, b)
               THEN /\ w' = [w EXCEPT !.polls = @ + 1, !.sleeps = @ + 1, !.i = @ + 1]
                    /\ since' = IF since.armed
                                THEN [since EXCEPT !.polls = @ + 1, !.sleeps = @ + 1]
                                ELSE since
                    /\ trace' = trace
                    /\ UNCHANGED <<pc, status, op, erro, ret, auxVars>>
               ELSE /\ w' = [w EXCEPT !.polls = @ + 1, !.result = "ready"]
                    /\ since' = IF since.armed THEN [since EXCEPT !.polls = @ + 1]
                                ELSE since
                    /\ trace' = Append(trace, Ev("ready", StatusReg(bmp), 0, TRUE))
                    /\ Continue
            /\ UNCHANGED <<persistVars, locals, timedOut>>
       \/ /\ w' = [w EXCEPT !.polls = @ + 1, !.result = "error"]
          /\ since' = IF since.armed THEN [since EXCEPT !.polls = @ + 1] ELSE since
          /\ trace' = Append(trace, Ev("poll", StatusReg(bmp), w.polls + 1, FALSE))
          /\ AbortWith(I2CErr(Len(trace) + 1))

\* a wait whose timeout is an error of the operation
WaitTimeout_fatal ==
    /\ Running("waitForCompletion")
    /\ ~waitForCompletion_cond(w.i)
    /\ w' = [w EXCEPT !.result = "timeout"]
    /\ timedOut' = TRUE
    /\ trace' = Append(trace, Ev("timeout", StatusReg(bmp), 0, TRUE))
    /\ erro' = [e |-> "timeout", at |-> Len(trace) + 1]
    /\ ret' = ErrorReturn(op.name, [e |-> "timeout", at |-> Len(trace) + 1])
    /\ status' = "done"
    /\ UNCHANGED <<persistVars, op, pc, since, locals, auxVars>>
\* return true, nil after the loop
WaitTimeout ==
    /\ Running("waitForCompletion")
    /\ ~waitForCompletion_cond(w.i)
    /\ w' = [w EXCEPT !.result = "timeout"]
    /\ timedOut' = TRUE
    /\ trace' = Append(trace, Ev("timeout", StatusReg(bmp), 0, TRUE))
    /\ Continue
    /\ UNCHANGED <<persistVars, since, locals>>

\* what a register read may deliver
BusData(in) ==
    IF in.dst = "id" THEN { <<b>> : b \in SignatureBytes } ELSE SampleBufs(in.n)

\* i2c.ReadRegU8 / ReadRegU16BE / ReadRegBytes and the assembly of the result
ReadStep ==
    /\ Running("ReadReg")
    /\ w' = W0
    /\ \/ \E buf \in BusData(instr) :
            /\ locals' = [locals EXCEPT ![instr.dst] = Assemble(instr.conv, buf, instr.oss)]
            /\ trace' = Append(trace, Ev("read", instr.reg, instr.n, TRUE))
            /\ since' = IF instr.dst = "id" THEN since ELSE Since0
            /\ Continue
            /\ UNCHANGED <<persistVars, timedOut>>
       \/ /\ trace' = Append(trace, Ev("read", instr.reg, instr.n, FALSE))
          /\ since' = since
          /\ AbortWith(I2CErr(Len(trace) + 1))

\* v.bmp.RecognizeSignature(id) and the test of its error in NewBMP
RecognizeStep ==
    /\ Running("RecognizeSignature")
    /\ w' = W0
    /\ since' = since
    /\ IF RecognizeSignature(bmp, locals.id).err = "nil"
       THEN /\ trace' = Append(trace, Ev("recognize", 0, locals.id, TRUE))
            /\ Continue
            /\ UNCHANGED <<persistVars, locals, timedOut>>
       ELSE /\ trace' = Append(trace, Ev("recognize", 0, locals.id, FALSE))
            /\ AbortWith(SignatureErr(locals.id))

\* i2c.WriteBytes([]byte{start}) of ReadCoefficients
CoefAddrStep ==
    /\ Running("WriteBytes")
    /\ w' = W0
    /\ since' = since
    /\ \/ /\ trace' = Append(trace, Ev("coefaddr", instr.reg, 0, TRUE))
          /\ Continue
          /\ UNCHANGED <<persistVars, locals, timedOut>>
       \/ /\ trace' = Append(trace, Ev("coefaddr", instr.reg, 0, FALSE))
          /\ AbortWith(I2CErr(Len(trace) + 1))

\* a calibration read that stores every block in v.Coeff as soon as it is read
CoefReadStep_store_early ==
    /\ Running("readDataToStruct")
    /\ w' = W0
    /\ since' = since
    /\ \/ /\ locals' = [locals EXCEPT !.arr =
                @ \o SubSeq(DeviceBlock(bmp, device), instr.val + 1, instr.val + instr.n)]
          /\ Coeff' = locals'.arr
          /\ trace' = Append(trace, Ev("coefread", instr.val, instr.n, TRUE))
          /\ Continue
          /\ UNCHANGED <<sensorType, bmp, handle, device, timedOut>>
       \/ /\ trace' = Append(trace, Ev("coefread", instr.val, instr.n, FALSE))
          /\ AbortWith(I2CErr(Len(trace) + 1))
\* readDataToStruct: i2c.ReadBytes of the block at the address written before
CoefReadStep ==
    /\ Running("readDataToStruct")
    /\ w' = W0
    /\ since' = since
    /\ \/ /\ locals' = [locals EXCEPT !.arr =
                @ \o SubSeq(DeviceBlock(bmp, device), instr.val + 1, instr.val + instr.n)]
          /\ trace' = Append(trace, Ev("coefread", instr.val, instr.n, TRUE))
          /\ Continue
          /\ UNCHANGED <<persistVars, timedOut>>
       \/ /\ trace' = Append(trace, Ev("coefread", instr.val, instr.n, FALSE))
          /\ AbortWith(I2CErr(Len(trace) + 1))

\* v.Coeff = coeff at the end of ReadCoefficients
StoreStep ==
    /\ Running("StoreCoeff")
    /\ Coeff' = locals.arr
    /\ trace' = Append(trace, Ev("ReadCoefficients", 0, Len(locals.arr), TRUE))
    /\ w' = W0
    /\ Continue
    /\ UNCHANGED <<sensorType, bmp, handle, device, since, locals, timedOut>>

\* what the function returns when no step of it failed
NormalReturn(name, fn, oss) ==
    CASE fn = "handle" -> Result(SensorReturn(Zero, NilErr, FALSE), TRUE, FALSE)
      [] fn = "unsupported" ->
            Result(Facade(name, SensorReturn(Zero, NilErr, FALSE)), FALSE, FALSE)
      [] OTHER ->
            Result(Facade(name, SensorReturn(Compensation(fn, bmp, locals, oss, Coeff),
                                             NilErr, fn = "H")), FALSE, FALSE)

\* the compensation arithmetic and the return statements up to the caller
ReturnStep ==
    /\ Running("Return")
    /\ ret' = NormalReturn(op.name, instr.dst, instr.oss)
    /\ handle' = IF instr.dst = "handle" THEN TRUE ELSE handle
    /\ status' = "done"
    /\ w' = W0
    /\ UNCHANGED <<sensorType, bmp, Coeff, device, op, pc, since, locals, trace,
                   timedOut, erro, auxVars>>

\* v.bmp.ReadSensorID on the nil interface: runtime panic
PanicStep ==
    /\ Running("Panic")
    /\ ret' = Result(SensorReturn(Zero, NilErr, FALSE), FALSE, TRUE)
    /\ status' = "done"
    /\ UNCHANGED <<persistVars, op, pc, w, since, locals, trace, timedOut,
                   erro, auxVars>>

\* the steps inside an operation
Step ==
    \/ WriteStep
    \/ Poll
    \/ WaitTimeout
    \/ ReadStep
    \/ RecognizeStep
    \/ CoefAddrStep
    \/ CoefReadStep
    \/ StoreStep
    \/ ReturnStep
    \/ PanicStep

Next ==
    \/ NewBMP
    \/ CallRead
    \/ WriteStep
    \/ Poll
    \/ WaitTimeout
    \/ ReadStep
    \/ RecognizeStep
    \/ CoefAddrStep
    \/ CoefReadStep
    \/ StoreStep
    \/ ReturnStep
    \/ PanicStep

Spec == Init /\ [][Next]_vars

\* the same caller, who may also repeat a read to compare two results
NextCompare ==
    \/ RepeatRead
    \/ NewBMP
    \/ CallRead
    \/ WriteStep
    \/ Poll
    \/ WaitTimeout
    \/ ReadStep
    \/ RecognizeStep
    \/ CoefAddrStep
    \/ CoefReadStep
    \/ StoreStep
    \/ ReturnStep
    \/ PanicStep

SpecCompare == Init /\ [][NextCompare]_vars

(***************************************************************************)
(* Polling and termination.                                                *)
(***************************************************************************)
\* C1: waitForCompletion never issues more than 10 polls; once all 10 polls
\* have reported busy (none failed) no further poll is possible and the only
\* way on is the return of timeout = true, which comes after exactly 10
\* IsBusy calls and with a nil error.
C1_TimeoutAfterTenPolls ==
    /\ w.polls <= PollAttempts
    /\ w.sleeps <= w.polls
    /\ (w.result = "timeout") =>
            /\ w.polls = PollAttempts
            /\ w.sleeps = PollAttempts
            /\ timedOut
            /\ erro = NilErr
            /\ trace[Len(trace)].k = "timeout"
    /\ (w.sleeps = PollAttempts /\ w.result = "none") =>
            /\ Running("waitForCompletion")
            /\ ~ENABLED Poll
            /\ ENABLED WaitTimeout

\* ten busy polls of one waitForCompletion, which then returned timeout
C1_Witness ==
    /\ w.result = "timeout"
    /\ w.polls = PollAttempts
    /\ status = "running"

\* steps the instructions prog[k..] can take at most: one each, and a
\* waitForCompletion one per attempt and one to return
Remaining(prog, k) ==
    (Len(prog) + 1 - k)
        + PollAttempts * Cardinality({j \in k..Len(prog) : prog[j].i = "waitForCompletion"})

\* steps the operation (impl, o) at instruction k, attempt i, can still take
MeasureAt(st, impl, o, k, i) ==
    IF st # "running" THEN 0
    ELSE LET prog == ProgramOf(impl, o.name, o.accuracy)
         IN  Remaining(prog, k) - (IF prog[k].i = "waitForCompletion" THEN i ELSE 0)

\* steps the running operation can still take at most
Measure == MeasureAt(status, bmp, op, pc, w.i)

\* C2: a running public operation can always take a step, and every step
\* (each bus operation is one) strictly decreases a non-negative measure that
\* starts at the finite budget of the operation's instructions: the operation
\* returns after finitely many bus operations whatever the bus answers.
C2_Terminates ==
    /\ [](status = "running" =>
            /\ Measure > 0
            /\ Measure <= Remaining(ProgramOf(bmp, op.name, op.accuracy), 1)
            /\ ENABLED Step)
    /\ [][ status = "running" =>
            LET m == Measure
                n == MeasureAt(status', bmp', op', pc', w'.i)
            IN  /\ n < m
                /\ n >= 0
                /\ (n = 0 <=> status' = "done") ]_vars

\* the longest run: the pressure read of the BMP388 with both waits timing out
C2_Witness ==
    /\ status = "done"
    /\ bmp = "SensorBMP388"
    /\ op.name \in PressureOps
    /\ erro = NilErr
    /\ Cardinality({k \in 1..Len(trace) : trace[k].k = "timeout"}) = 2

\* C3: between a write that triggers a forced conversion and the read of the
\* output registers of that conversion there are at most 10 status polls and
\* at most 10 sleeps.
C3_TenPollsPerConversion ==
    since.armed => (since.polls <= PollAttempts /\ since.sleeps <= PollAttempts)

(***************************************************************************)
(* Errors.                                                                 *)
(***************************************************************************)
BusKinds == {"write", "poll", "read", "coefaddr", "coefread"}
\* the k-th event of the operation is a bus operation that failed
Failed(k) == trace[k].k \in BusKinds /\ ~trace[k].ok
NoBusFailure == \A k \in 1..Len(trace) : ~Failed(k)

\* C4: a failed bus operation is the last thing the operation does: it is
\* not retried, nothing follows it, the operation has returned with exactly
\* that error and with a zero value (no handle from NewBMP).
C4_FirstBusErrorAborts ==
    \A k \in 1..Len(trace) :
        Failed(k) =>
            /\ k = Len(trace)
            /\ status = "done"
            /\ erro = I2CErr(k)
            /\ ret.err = erro
            /\ ret.val = Zero
            /\ ~ret.nonnil
            /\ (op.name = "NewBMP" => ~handle)

\* a bus failure after some bus operations succeeded
C4_Witness ==
    /\ Len(trace) > 3
    /\ Failed(Len(trace))
    /\ ret.err = I2CErr(Len(trace))

\* C5: a caller can tell a read whose polling timed out from a read whose
\* polling observed the ready condition: having kept the result of a ready
\* read and repeated the same call, a timed-out repetition returns something
\* different.
C5_TimeoutDistinguishable ==
    (status = "done" /\ kept.op = op /\ timedOut) => ret # kept.ret

\* C6: a read whose polling timed out and whose bus operations all succeeded
\* has read the output registers and then the calibration block, and returns
\* the value computed from them with a nil error.
C6_TimeoutStillComputes ==
    (status = "done" /\ op.name \in ReadOps /\ timedOut /\ NoBusFailure) =>
        /\ erro = NilErr
        /\ ret.err = NilErr
        /\ ret.val.fn \in {"T", "P", "H"}
        /\ ret.val.coeff = DeviceBlock(bmp, device)
        /\ ret.val.ut = locals.ut
        /\ \E i, j, k \in 1..Len(trace) :
                /\ i < j /\ j < k
                /\ trace[i].k = "timeout"
                /\ trace[j].k = "read" /\ trace[j].ok
                /\ trace[k].k = "ReadCoefficients"

\* a temperature read of the BMP280 that timed out and returned a value
C6_Witness ==
    /\ status = "done"
    /\ bmp = "SensorBMP280"
    /\ op.name = "ReadTemperatureMult100C"
    /\ timedOut
    /\ ret.err = NilErr
    /\ ret.val.fn = "T"

(***************************************************************************)
(* Construction.                                                           *)
(***************************************************************************)
IdReg(impl) ==
    CASE impl = "SensorBMP180" -> BMP180_ID_REG
      [] impl = "SensorBMP280" -> BMP280_ID_REG
      [] impl = "SensorBME280" -> BME280_ID_REG
      [] impl = "SensorBMP388" -> BMP388_ID_REG
      [] OTHER -> -1

CalibrationKinds == {"coefaddr", "coefread", "ReadCoefficients"}
CalibrationReads == {k \in 1..Len(trace) : trace[k].k = "ReadCoefficients"}

\* C7: NewBMP reads the identity register first, recognizes the signature
\* second and only then reads the calibration block, once; an unrecognized
\* signature ends it with a nil handle and an error before any calibration
\* access; a handle is returned only after exactly one completed calibration
\* read.
C7_NewBMPOrder ==
    (op.name = "NewBMP") =>
        /\ \A k \in 1..Len(trace) :
              /\ (trace[k].k = "read") => (k = 1 /\ trace[k].reg = IdReg(bmp))
              /\ (trace[k].k = "recognize") =>
                    (k = 2 /\ trace[1].k = "read" /\ trace[1].ok)
              /\ (trace[k].k \in CalibrationKinds) =>
                    (k > 2 /\ trace[2].k = "recognize" /\ trace[2].ok)
        /\ Cardinality(CalibrationReads) <= 1
        /\ (Len(trace) >= 2 /\ ~trace[2].ok) =>
              /\ Len(trace) = 2
              /\ status = "done"
              /\ ~handle /\ ~ret.nonnil
              /\ ret.err = SignatureErr(locals.id)
        /\ (handle \/ ret.nonnil) =>
              /\ status = "done"
              /\ handle /\ ret.nonnil /\ ret.err = NilErr
              /\ CalibrationReads = {Len(trace)}
              /\ \A k \in 1..Len(trace) : trace[k].ok
              /\ Coeff = DeviceBlock(bmp, device)

\* a handle of a BME280, whose calibration read takes three blocks
C7_Witness ==
    /\ op.name = "NewBMP"
    /\ status = "done"
    /\ bmp = "SensorBME280"
    /\ ret.nonnil
    /\ Len(trace) = 9

\* the 16-bit coefficient k of the block c has the pattern 0x0000 or 0xFFFF
Sentinel16(c, k) == c[2 * k - 1] = c[2 * k] /\ c[2 * k] \in {0, 255}

\* C9: the calibration set of a handle holds no sentinel coefficient, and a
\* device whose calibration block holds one yields neither a handle nor a
\* computed measurement (variants with 16-bit coefficients only: BMP180, BMP280).
C9_NoSentinelInHandle ==
    (bmp \in {"SensorBMP180", "SensorBMP280"}) =>
        /\ (handle /\ Coeff # <<>>) => IsValidCoefficients(bmp, Coeff) = "nil"
        /\ (\E k \in 1..(Len(DeviceBlock(bmp, device)) \div 2) :
                Sentinel16(DeviceBlock(bmp, device), k)) =>
              (~handle /\ ret.val = Zero)

(***************************************************************************)
(* Measurement calls.                                                      *)
(***************************************************************************)
\* the events of the conversion: trigger writes, polls, output register reads
ConversionKinds == {"write", "ready", "timeout", "poll", "read"}

\* a Read* call of a supported quantity returned a computed value without error
Measured ==
    /\ status = "done"
    /\ op.name \in ReadOps
    /\ erro = NilErr
    /\ ret.val.fn \in {"T", "P", "H"}

\* C12: a measurement call that returns without error has made exactly one
\* calibration read, after every trigger write, poll and output register read
\* of the call and before the compensation, and the compensation uses the
\* coefficients of that read, not those of NewBMP or of an earlier call.
C12_CalibrationReadPerCall ==
    Measured =>
        /\ CalibrationReads = {Len(trace)}
        /\ \A a, b \in 1..Len(trace) :
              (trace[a].k \in ConversionKinds /\ trace[b].k \in CalibrationKinds)
                 => a < b
        /\ \A a, b \in 1..Len(trace) :
              (trace[a].k = "coefread" /\ trace[b].k = "coefread" /\ a # b)
                 => trace[a].reg # trace[b].reg
        /\ Len(locals.arr) = Len(DeviceBlock(bmp, device))
        /\ locals.arr = DeviceBlock(bmp, device)
        /\ ret.val.coeff = locals.arr

\* a pressure read of the BMP180: two conversions, then the calibration read
C12_Witness ==
    /\ Measured
    /\ bmp = "SensorBMP180"
    /\ op.name = "ReadPressureMult10Pa"
    /\ ret.val.fn = "P"
    /\ Len(trace) = 9
    /\ trace[7].k = "coefaddr"
    /\ trace[9].k = "ReadCoefficients"

\* C15: a humidity read of the BMP180, BMP280 or BMP388 issues no bus
\* operation and returns supported = false, 0 and a nil error; a humidity read
\* of the BME280 returns supported = true on every path, error paths included.
C15_HumiditySupportedFlag ==
    (op.name \in HumidityOps) =>
        /\ (bmp # "SensorBME280") =>
              /\ trace = <<>>
              /\ erro = NilErr
              /\ ~timedOut
              /\ (status = "done") =>
                    (~ret.supported /\ ret.val = Zero /\ ret.err = NilErr /\ ~ret.panic)
        /\ (bmp = "SensorBME280" /\ status = "done") =>
              /\ ret.supported
              /\ ret.err = erro
              /\ (erro # NilErr) => ret.val = Zero

\* a humidity read of the BME280 that failed at the humidity register
C15_Witness ==
    /\ op.name = "ReadHumidityRH"
    /\ bmp = "SensorBME280"
    /\ status = "done"
    /\ erro # NilErr
    /\ trace[Len(trace)].reg = BME280_HUM_OUT_MSB_LSB
    /\ ret.supported

\* C18: waitForCompletion starts after a register write, polls while the
\* sensor is busy and sleeps once after each busy poll, returns not timed out
\* at the first poll that is not busy, with no poll or sleep after it, and
\* returns timed out only after ten busy polls.
C18_WaitStateMachine ==
    [][/\ (Running("waitForCompletion") /\ w = W0) =>
              (pc > 1 /\ ProgramOf(bmp, op.name, op.accuracy)[pc - 1].i = "WriteRegU8")
       /\ (w.result = "none") => (w.sleeps = w.polls /\ w.i = w.polls)
       /\ (w.result = "ready") =>
              (w.polls = w.sleeps + 1 /\ w.sleeps < PollAttempts /\ erro = NilErr)
       /\ (w.result = "timeout") =>
              (w.polls = w.sleeps /\ w.sleeps = PollAttempts /\ timedOut)
       /\ (w' # w) =>
              \/ w' = W0
              \/ /\ w.result = "none"
                 /\ w'.polls = w.polls + 1
                 /\ \/ w'.result = "none" /\ w'.sleeps = w.sleeps + 1 /\ pc' = pc
                    \/ w'.result = "ready" /\ w'.sleeps = w.sleeps /\ pc' = pc + 1
                    \/ w'.result = "error" /\ w'.sleeps = w.sleeps /\ status' = "done"
              \/ /\ w.result = "none"
                 /\ w'.result = "timeout"
                 /\ w.polls = PollAttempts
                 /\ w'.polls = w.polls /\ w'.sleeps = w.sleeps
                 /\ pc' = pc + 1
      ]_vars

\* the third poll of a wait found the sensor ready, after two sleeps
C18_Witness ==
    /\ w.result = "ready"
    /\ w.polls = 3
    /\ w.sleeps = 2
    /\ ~timedOut

\* the events of a completed wait or of a failed poll
WaitKinds == {"ready", "timeout", "poll"}

\* the bus operations of a humidity read of the BME280, in order: the kind of
\* each and its register (0xF4, 0xF3, 0xFA, 0xF4, 0xF3, 0xF2, 0xF3, 0xFD, then
\* the three parts of the calibration block)
HumidityOrder ==
    << <<{"write"}, 244>>, <<WaitKinds, 243>>, <<{"read"}, 250>>,
       <<{"write"}, 244>>, <<WaitKinds, 243>>,
       <<{"write"}, 242>>, <<WaitKinds, 243>>, <<{"read"}, 253>>,
       <<{"coefaddr"}, 136>>, <<{"coefread"}, 0>>,
       <<{"coefaddr"}, 161>>, <<{"coefread"}, 24>>,
       <<{"coefaddr"}, 225>>, <<{"coefread"}, 25>>,
       <<{"ReadCoefficients"}, 0>> >>

\* C20: a humidity read of the BME280 writes 0xF4 and polls, reads the
\* temperature, writes 0xF4 and polls again, only then writes 0xF2 and polls,
\* only then reads 0xFD, and reads the calibration block last.
C20_HumidityReadOrder ==
    (bmp = "SensorBME280" /\ op.name \in HumidityOps) =>
        /\ Len(trace) <= Len(HumidityOrder)
        /\ \A k \in 1..Len(trace) :
              /\ trace[k].k \in HumidityOrder[k][1]
              /\ trace[k].reg = HumidityOrder[k][2]
              /\ (~trace[k].ok) => k = Len(trace)
        /\ (status = "done" /\ erro = NilErr) => Len(trace) = Len(HumidityOrder)

\* a humidity read of the BME280 that completed
C20_Witness ==
    /\ bmp = "SensorBME280"
    /\ op.name = "ReadHumidityMultQ2210"
    /\ status = "done"
    /\ erro = NilErr
    /\ Len(trace) = 15
    /\ trace[6] = Ev("write", BME280_CTRL_HUM, 1, TRUE)
    /\ trace[8].reg = BME280_HUM_OUT_MSB_LSB

\* the bus operations of a pressure read of the BMP180, in order: the kind of
\* each, its register and what is written or how many bytes are read
PressureOrderBMP180(oss) ==
    << <<{"write"}, 244, {47}>>, <<WaitKinds, 244, 0..PollAttempts>>,
       <<{"read"}, 246, {2}>>,
       <<{"write"}, 244, {52 + 64 * oss}>>, <<WaitKinds, 244, 0..PollAttempts>>,
       <<{"read"}, 246, {3}>>,
       <<{"coefaddr"}, 170, {0}>>, <<{"coefread"}, 0, {22}>>,
       <<{"ReadCoefficients"}, 0, {22}>> >>

\* C21: a pressure read of the BMP180 writes 0x2F to 0xF4, polls and reads
\* 0xF6 before it writes 0x34 + (oss << 6) to 0xF4, polls and reads 3 bytes at
\* 0xF6; ut and up are unset until the read of this call has stored them, and
\* the compensation is applied to exactly these two samples.
C21_OwnTemperatureSample ==
    (bmp = "SensorBMP180" /\ op.name \in PressureOps) =>
        LET order == PressureOrderBMP180(BMP180_getOversamplingRation(op.accuracy))
            done(k) == Len(trace) >= k /\ trace[k].ok
        IN  /\ Len(trace) <= Len(order)
            /\ \A k \in 1..Len(trace) :
                  /\ trace[k].k \in order[k][1]
                  /\ trace[k].reg = order[k][2]
                  /\ (trace[k].k \in {"write", "read"}) => trace[k].val \in order[k][3]
                  /\ (~trace[k].ok) => k = Len(trace)
            /\ IF done(3) THEN \E buf \in SampleBufs(2) :
                                  locals.ut = Assemble("u16be", buf, 0)
               ELSE locals.ut = 0
            /\ IF done(6)
               THEN \E buf \in SampleBufs(3) :
                      locals.up = Assemble("bmp180up", buf,
                                           BMP180_getOversamplingRation(op.accuracy))
               ELSE locals.up = 0
            /\ (status = "done" /\ erro = NilErr) =>
                  /\ Len(trace) = Len(order)
                  /\ ret.val.fn = "P"
                  /\ ret.val.ut = locals.ut
                  /\ ret.val.up = locals.up

\* a pressure read of the BMP180 at oversampling 1 that completed
C21_Witness ==
    /\ bmp = "SensorBMP180"
    /\ op = [name |-> "ReadPressureMult10Pa", accuracy |-> ACCURACY_STANDARD]
    /\ status = "done"
    /\ erro = NilErr
    /\ trace[1] = Ev("write", BMP180_CNTR_MEAS_REG, 47, TRUE)
    /\ trace[4] = Ev("write", BMP180_CNTR_MEAS_REG, 116, TRUE)
    /\ ret.val.ut = 27898
    /\ ret.val.up # 0

(***************************************************************************)
(* The pure functions, applied to arguments drawn from bounded sets.       *)
(***************************************************************************)
Implementations == {"SensorBMP180", "SensorBMP280", "SensorBME280", "SensorBMP388"}

Call(fn, impl, arg) == [fn |-> fn, impl |-> impl, arg |-> arg]
Answer(fn, res) == [fn |-> fn, res |-> res]

InitSig ==
    /\ Idle
    /\ inp \in {Call("RecognizeSignature", impl, b) : impl \in Implementations, b \in 0..255}
    /\ out = NoInput

ApplyRecognizeSignature ==
    /\ inp.fn = "RecognizeSignature"
    /\ out = NoInput
    /\ out' = Answer(inp.fn, RecognizeSignature(inp.impl, inp.arg))
    /\ UNCHANGED <<protoVars, kept, inp>>

NextSig == ApplyRecognizeSignature

SpecSig == InitSig /\ [][NextSig]_vars

\* the signatures each variant accepts
ValidSignatures(impl) ==
    CASE impl = "SensorBMP180" -> {85}
      [] impl = "SensorBMP280" -> {88, 86, 87}
      [] impl = "SensorBME280" -> {96}
      [] impl = "SensorBMP388" -> {80}

\* C8: for every byte, RecognizeSignature returns a nil error exactly for the
\* valid signatures of the variant, and an error with an empty description
\* for every other byte.
C8_RecognizeSignature ==
    (out.fn = "RecognizeSignature") =>
        /\ (out.res.err = "nil") <=> (inp.arg \in ValidSignatures(inp.impl))
        /\ (out.res.err # "nil") => (out.res.desc = "")
        /\ (out.res.err = "nil") => (out.res.desc # "")

\* a sample id of the BMP280 is accepted
C8_Witness ==
    /\ out.fn = "RecognizeSignature"
    /\ inp.impl = "SensorBMP280"
    /\ inp.arg = 87
    /\ out.res.err = "nil"

\* the byte pairs a coefficient of the input is replaced with
Patterns == { <<0, 0>>, <<255, 255>>, <<0, 255>>, <<255, 0>>, <<0, 1>> }

\* block b with the bytes of its k-th 16-bit coefficient replaced by pat
ReplaceCoef(b, k, pat) ==
    [j \in 1..Len(b) |->
        IF j = 2 * k - 1 THEN pat[1] ELSE IF j = 2 * k THEN pat[2] ELSE b[j]]

RECURSIVE Altered(_, _, _)
\* the blocks got from those of S, of m coefficients, by replacing up to n of them
Altered(S, m, n) ==
    IF n = 0 THEN S
    ELSE Altered(S \cup { ReplaceCoef(b, k, pat) :
                            b \in S, k \in 1..m, pat \in Patterns }, m, n - 1)

\* number of coefficients of the calibration set of the variant
NumCoef(impl) == IF impl = "SensorBMP180" THEN BMP180_COEF_BYTES \div 2
                 ELSE BMP280_COEF_BYTES \div 2

CoefInputs(impl) ==
    { Call("IsValidCoefficients", impl, b) :
        b \in Altered({GoodBlock(impl)}, NumCoef(impl), MaxAltered) }

InitCoef ==
    /\ Idle
    /\ inp \in CoefInputs("SensorBMP180") \cup CoefInputs("SensorBMP280")
    /\ out = NoInput

ApplyIsValidCoefficients ==
    /\ inp.fn = "IsValidCoefficients"
    /\ out = NoInput
    /\ out' = Answer(inp.fn, IsValidCoefficients(inp.impl, inp.arg))
    /\ UNCHANGED <<protoVars, kept, inp>>

NextCoef == ApplyIsValidCoefficients

SpecCoef == InitCoef /\ [][NextCoef]_vars

\* the coefficients in the order of the calibration set
CoefNames(impl) ==
    IF impl = "SensorBMP180"
    THEN <<"AC1", "AC2", "AC3", "AC4", "AC5", "AC6", "B1", "B2", "MB", "MC", "MD">>
    ELSE <<"dig_T1", "dig_T2", "dig_T3", "dig_P1", "dig_P2", "dig_P3", "dig_P4",
           "dig_P5", "dig_P6", "dig_P7", "dig_P8", "dig_P9">>

\* C10: IsValidCoefficients of the BMP180 and of the BMP280 returns nil when
\* no coefficient has the pattern 0x0000 or 0xFFFF, and otherwise the error
\* that names the first coefficient, in the order of the set, that has.
C10_IsValidCoefficients ==
    (out.fn = "IsValidCoefficients") =>
        LET bad == {k \in 1..NumCoef(inp.impl) : Sentinel16(inp.arg, k)}
        IN  /\ (bad = {}) <=> (out.res = "nil")
            /\ (bad # {}) =>
                  \E k \in bad :
                        /\ \A j \in bad : k <= j
                        /\ out.res = CoefNames(inp.impl)[k]

\* two coefficients of the BMP180 erased, the error names the first
C10_Witness ==
    /\ out.fn = "IsValidCoefficients"
    /\ inp.impl = "SensorBMP180"
    /\ Sentinel16(inp.arg, 3)
    /\ Sentinel16(inp.arg, 9)
    /\ out.res = "AC3"

\* the bytes of the BME280 calibration set that hold each coefficient, in the
\* order dig_T1..dig_P9, dig_H1..dig_H6
BME280_Fields ==
    [k \in 1..12 |-> {2 * k - 1, 2 * k}]
        \o << {25}, {26, 27}, {28}, {29, 30}, {30, 31}, {32} >>

\* block b with the bytes at the positions S replaced by x
Overwrite(b, S, x) == [j \in 1..Len(b) |-> IF j \in S THEN x ELSE b[j]]

\* the programmed block with up to two coefficients erased to 0x00.. or 0xFF..
CoefInputsBME280 ==
    { Call("IsValidCoefficients", "SensorBME280",
           Overwrite(Overwrite(GoodBlock("SensorBME280"), BME280_Fields[k1], x1),
                     BME280_Fields[k2], x2)) :
        k1 \in 1..Len(BME280_Fields), k2 \in 1..Len(BME280_Fields),
        x1 \in {0, 255}, x2 \in {0, 255} }
        \cup { Call("IsValidCoefficients", "SensorBME280", GoodBlock("SensorBME280")) }

InitCoefBME280 ==
    /\ Idle
    /\ inp \in CoefInputsBME280
    /\ out = NoInput

SpecCoefBME280 == InitCoefBME280 /\ [][NextCoef]_vars

\* the raw bit pattern of every coefficient of the BME280 with the all-ones
\* pattern of its width
BME280_RawCoefficients(c) ==
    << <<BME280_dig_T1(c), 65535>>, <<ToU16(BME280_dig_T2(c)), 65535>>,
       <<ToU16(BME280_dig_T3(c)), 65535>>, <<BME280_dig_P1(c), 65535>>,
       <<ToU16(BME280_dig_P2(c)), 65535>>, <<ToU16(BME280_dig_P3(c)), 65535>>,
       <<ToU16(BME280_dig_P4(c)), 65535>>, <<ToU16(BME280_dig_P5(c)), 65535>>,
       <<ToU16(BME280_dig_P6(c)), 65535>>, <<ToU16(BME280_dig_P7(c)), 65535>>,
       <<ToU16(BME280_dig_P8(c)), 65535>>, <<ToU16(BME280_dig_P9(c)), 65535>>,
       <<BME280_dig_H1(c), 255>>, <<ToU16(BME280_dig_H2(c)), 65535>>,
       <<BME280_dig_H3(c), 255>>, <<ToU16(BME280_dig_H4(c)), 65535>>,
       <<ToU16(BME280_dig_H5(c)), 65535>>, <<ToU8(BME280_dig_H6(c)), 255>> >>

\* C11: IsValidCoefficients of the BME280 fails whenever a coefficient of the
\* set, dig_H1..dig_H6 included, has the raw pattern 0 or all ones.
C11_HumidityCoefficientsChecked ==
    (out.fn = "IsValidCoefficients" /\ inp.impl = "SensorBME280") =>
        LET raw == BME280_RawCoefficients(inp.arg)
        IN  (\E k \in 1..Len(raw) : raw[k][1] \in {0, raw[k][2]}) =>
                out.res # "nil"

(***************************************************************************)
(* The compensation arithmetic, applied to raw counts and calibration sets *)
(* drawn from bounded sets.                                                *)
(***************************************************************************)
\* number of raw counts tried per output register
NumRaw == 2
\* raw counts of the 20-bit output registers: the data sheet's temperature and
\* pressure examples and the ends of the range
RawCounts == <<519888, 415148, 0, 1048575>>
Raw == { RawCounts[k] : k \in 1..NumRaw }

\* the calibration sets tried: the programmed one and those with one 16-bit
\* coefficient replaced
CoefBlocks(impl) == Altered({GoodBlock(impl)}, BMP280_COEF_BYTES \div 2, 1)

CompensationInputs ==
    UNION { { Call("Compensation", impl,
                   Compensation(fn, impl, [Locals0 EXCEPT !.ut = ut, !.up = up], 0, c)) :
                fn \in {"T", "P"}, ut \in Raw, up \in Raw, c \in CoefBlocks(impl) } :
            impl \in {"SensorBMP280", "SensorBME280"} }

InitCompensation ==
    /\ Idle
    /\ inp \in CompensationInputs
    /\ out = NoInput

ApplyCompensation ==
    /\ inp.fn = "Compensation"
    /\ out = NoInput
    /\ out' = Answer(inp.fn, Evaluate(inp.arg))
    /\ UNCHANGED <<protoVars, kept, inp>>

SpecCompensation == InitCompensation /\ [][ApplyCompensation]_vars

\* the calibration set of the term has dig_P1 = 0
P1IsZero(t) == t.coeff[7] = 0 /\ t.coeff[8] = 0

\* C13: the pressure compensation of the BMP280 and of the BME280 returns 0
\* with a nil error and divides nothing when var1 is zero (as it is when
\* dig_P1 is zero), and reaches its division for every other var1.
C13_ZeroVar1ReturnsZero ==
    (out.fn = "Compensation" /\ inp.arg.fn = "P") =>
        /\ ~out.res.panic
        /\ out.res.err = "nil"
        /\ (out.res.var1 = WZero(8)) =>
              (out.res.val = WZero(4) /\ ~out.res.divided)
        /\ (out.res.var1 # WZero(8)) => out.res.divided
        /\ P1IsZero(inp.arg) => out.res.var1 = WZero(8)

\* a BME280 whose dig_P1 is zero
C13_Witness ==
    /\ out.fn = "Compensation"
    /\ inp.impl = "SensorBME280"
    /\ inp.arg.fn = "P"
    /\ P1IsZero(inp.arg)
    /\ out.res.val = WZero(4)
    /\ ~out.res.divided

\* raw counts of the 16-bit humidity register
RawHumidity == {0, 30000, 65535}

\* humidity terms of the BME280: the programmed calibration set and those
\* with one coefficient erased to 0x00.. or 0xFF..
HumidityInputs ==
    { Call("Compensation", "SensorBME280",
           Compensation("H", "SensorBME280", [Locals0 EXCEPT !.ut = ut, !.uh = uh], 0,
                        Overwrite(GoodBlock("SensorBME280"), F, x))) :
        ut \in Raw, uh \in RawHumidity,
        F \in {{}} \cup {BME280_Fields[k] : k \in 1..Len(BME280_Fields)},
        x \in {0, 255} }

InitHumidity ==
    /\ Idle
    /\ inp \in HumidityInputs
    /\ out = NoInput

SpecHumidity == InitHumidity /\ [][ApplyCompensation]_vars

\* C14: the humidity compensation of the BME280 returns the last intermediate
\* clamped into 0..419430400 and shifted right by 12: 0 for a negative one,
\* 102400 for one above the range, and always a value in 0..102400.
C14_HumidityClamped ==
    (out.fn = "Compensation" /\ inp.arg.fn = "H") =>
        LET v == out.res.v_x1
            h == WInt(out.res.val)
        IN  /\ out.res.err = "nil" /\ ~out.res.panic
            /\ out.res.val[4] < 128
            /\ h \in 0..102400
            /\ WIsNeg(v) => h = 0
            /\ (~WIsNeg(v) /\ WInt(v) > 419430400) => h = 102400
            /\ (~WIsNeg(v) /\ WInt(v) <= 419430400) => h = WInt(v) \div 4096

\* an intermediate above the range
C14_Witness ==
    /\ out.fn = "Compensation"
    /\ inp.arg.fn = "H"
    /\ inp.arg.uh = 65535
    /\ ~WIsNeg(out.res.v_x1)
    /\ WInt(out.res.v_x1) > 419430400
    /\ WInt(out.res.val) = 102400

\* C16: the temperature compensation of the BMP280 with dig_T1 = 27504,
\* dig_T2 = 26435, dig_T3 = -1000 and the raw count 519888 returns 2508.
C16_DataSheetTemperature ==
    (/\ out.fn = "Compensation"
     /\ inp.impl = "SensorBMP280"
     /\ inp.arg.fn = "T"
     /\ inp.arg.ut = 519888
     /\ SubSeq(inp.arg.coeff, 1, 6) = EncodeLE16(<<27504, 26435, -1000>>)) =>
        /\ out.res.err = "nil"
        /\ out.res.val = WFrom(4, 2508)

\* the data sheet's example has been computed
C16_Witness ==
    /\ out.fn = "Compensation"
    /\ inp.impl = "SensorBMP280"
    /\ inp.arg.fn = "T"
    /\ inp.arg.ut = 519888
    /\ inp.arg.coeff = GoodBlock("SensorBMP280")
    /\ WInt(out.res.val) = 2508

\* raw counts of the BMP180: the data sheet's temperature and pressure
\* examples and the ends of the 16-bit range
RawCounts180 == <<27898, 23843, 0, 65535>>
Raw180 == { RawCounts180[k] : k \in 1..NumRaw }

\* terms of the BMP180: the programmed calibration set and those with one
\* coefficient replaced, every oversampling code
InputsBMP180 ==
    { Call("Compensation", "SensorBMP180",
           Compensation(fn, "SensorBMP180", [Locals0 EXCEPT !.ut = ut, !.up = up],
                        oss, c)) :
        fn \in {"T", "P"}, ut \in Raw180, up \in Raw180,
        oss \in { BMP180_getOversamplingRation(a) :
                    a \in ACCURACY_ULTRA_LOW..ACCURACY_HIGHEST },
        c \in Altered({GoodBlock("SensorBMP180")}, BMP180_COEF_BYTES \div 2, 1) }

InitBMP180 ==
    /\ Idle
    /\ inp \in InputsBMP180
    /\ out = NoInput

SpecBMP180 == InitBMP180 /\ [][ApplyCompensation]_vars

\* C17: the pressure compensation of the BMP180 with the data sheet's
\* coefficients, ut = 27898, up = 23843 and oss = 0 returns 699640.
C17_DataSheetPressure ==
    (/\ out.fn = "Compensation"
     /\ inp.arg.fn = "P"
     /\ inp.arg.ut = 27898 /\ inp.arg.up = 23843 /\ inp.arg.oss = 0
     /\ inp.arg.coeff = EncodeBE16(<<408, -72, -14383, 32741, 32757, 23153, 6190, 4,
                                     -32768, -8711, 2868>>)) =>
        /\ out.res.err = "nil"
        /\ out.res.val = WFrom(4, 699640)

InitBusy ==
    /\ Idle
    /\ inp \in {Call("IsBusy", impl, b) : impl \in Implementations, b \in 0..255}
    /\ out = NoInput

\* IsBusy on the byte read from the status register of the variant
ApplyIsBusy ==
    /\ inp.fn = "IsBusy"
    /\ out = NoInput
    /\ out' = Answer(inp.fn, [busy |-> IsBusy(inp.impl, inp.arg),
                              reg |-> StatusReg(inp.impl)])
    /\ UNCHANGED <<protoVars, kept, inp>>

SpecBusy == InitBusy /\ [][ApplyIsBusy]_vars

\* bit k (value 2^k) of the byte b is set
BitSet(b, k) == (b \div (2 ^ k)) % 2 = 1

MaxMode == 12

getOversamplingRation(impl, accuracy) ==
    CASE impl = "SensorBMP180" -> BMP180_getOversamplingRation(accuracy)
      [] impl = "SensorBMP280" -> BMP280_getOversamplingRation(accuracy)
      [] impl = "SensorBME280" -> BME280_getOversamplingRation(accuracy)
      [] impl = "SensorBMP388" -> BMP388_getOversamplingRation(accuracy)

\* the register and the byte of every i2c.WriteRegU8 of a function
Writes(prog) ==
    { <<prog[k].reg, prog[k].val>> :
        k \in {j \in 1..Len(prog) : prog[j].i = "WriteRegU8"} }

InitOversampling ==
    /\ Idle
    /\ inp \in {Call("getOversamplingRation", impl, a) :
                    impl \in Implementations, a \in (-MaxMode)..MaxMode}
    /\ out = NoInput

\* the code of the mode and the control bytes the three reads write with it
ApplyGetOversamplingRation ==
    /\ inp.fn = "getOversamplingRation"
    /\ out = NoInput
    /\ out' = Answer(inp.fn,
                     [oss |-> getOversamplingRation(inp.impl, inp.arg),
                      writes |-> Writes(ReadTemperatureMult100C(inp.impl, inp.arg))
                                   \cup Writes(ReadPressureMult10Pa(inp.impl, inp.arg))
                                   \cup Writes(ReadHumidityMultQ2210(inp.impl, inp.arg))])
    /\ UNCHANGED <<protoVars, kept, inp>>

SpecOversampling == InitOversampling /\ [][ApplyGetOversamplingRation]_vars

\* C22: for every accuracy mode, inside or outside the enumeration, the
\* oversampling code is in 0..3 (BMP180), 1..5 (BMP280, BME280) or 0..5
\* (BMP388); the control bytes 0x34 + (oss << 6), 1 | osrt << 5 | osrp << 2 and
\* osrt << 3 | osrp computed without truncation fit 8 bits and are the bytes
\* written, and the shift 8 - oss of the BMP180 is in 5..8.
C22_OversamplingInRange ==
    (out.fn = "getOversamplingRation") =>
        LET oss == out.res.oss
            std == getOversamplingRation(inp.impl, ACCURACY_STANDARD)
            written(reg, b) == b \in 0..255 /\ <<reg, b>> \in out.res.writes
        IN  /\ oss \in 0..5
            /\ CASE inp.impl = "SensorBMP180" ->
                        /\ oss \in 0..3
                        /\ written(244, 52 + Shl(oss, 6))
                        /\ (8 - oss) \in 5..8
                  [] inp.impl \in {"SensorBMP280", "SensorBME280"} ->
                        /\ oss \in 1..5
                        /\ written(244, BitOr(1, Shl(oss, 5)))
                        /\ written(244, BitOr(BitOr(1, Shl(std, 5)), Shl(oss, 2)))
                  [] inp.impl = "SensorBMP388" ->
                        /\ written(29, Shl(oss, 3))
                        /\ written(29, BitOr(Shl(std, 3), oss))
            /\ \A x \in out.res.writes : x[2] \in 0..255

\* a mode above the enumeration on the BME280: the lowest code
C22_Witness ==
    /\ out.fn = "getOversamplingRation"
    /\ inp.impl = "SensorBME280"
    /\ inp.arg = ACCURACY_HIGHEST + 2
    /\ out.res.oss = 1
    /\ <<BME280_CTRL_MEAS, 33>> \in out.res.writes

\* C30: for every variant the oversampling code does not decrease from
\* ULTRA_LOW through LOW, STANDARD, HIGH, ULTRA_HIGH to HIGHEST.
C30_OversamplingMonotone ==
    (out.fn = "getOversamplingRation" /\ inp.arg \in ACCURACY_ULTRA_LOW..ACCURACY_HIGHEST) =>
        \A lower \in ACCURACY_ULTRA_LOW..inp.arg :
            getOversamplingRation(inp.impl, lower) <= out.res.oss

(***************************************************************************)
(* The final division of the BMP180 pressure compensation, in both orders. *)
(***************************************************************************)
\* dividends tried: 0..MaxDividend and the MaxDividend + 1 largest below 2^31
MaxDividend == 15
\* divisors tried: 1..MaxDivisor and three of the size b4 takes
MaxDivisor == 6

InitDivision ==
    /\ Idle
    /\ inp \in {Call("p1", "SensorBMP180", [b7 |-> b7, b4 |-> b4]) :
                    b7 \in (0..MaxDividend) \cup {2147483647 - k : k \in 0..MaxDividend},
                    b4 \in (1..MaxDivisor) \cup {33457, 131071, 2147483647}}
    /\ out = NoInput

\* both branches of bmp180.go:365-369 applied to the same b7 and b4
ApplyDivision ==
    /\ inp.fn = "p1"
    /\ out = NoInput
    /\ out' = Answer(inp.fn,
                     [low |-> BMP180_p1_low(WFrom(4, inp.arg.b7), WFrom(4, inp.arg.b4)),
                      high |-> BMP180_p1_high(WFrom(4, inp.arg.b7), WFrom(4, inp.arg.b4))])
    /\ UNCHANGED <<protoVars, kept, inp>>

SpecDivision == InitDivision /\ [][ApplyDivision]_vars

\* C23 as stated: for b7 < 0x80000000 and b4 > 0, (b7 * 2) / b4 equals
\* (b7 / b4) * 2 in truncating unsigned 32-bit arithmetic.
C23_DivisionOrdersEqual ==
    (out.fn = "p1") => out.res.low = out.res.high

\* C23 amended: for b7 < 0x80000000 and b4 > 0, (b7 / b4) * 2 is twice the
\* quotient, and (b7 * 2) / b4 is that or one more: one more exactly when twice
\* the remainder of b7 / b4 reaches b4.
C23_DivisionOrdersWithinOne ==
    (out.fn = "p1") =>
        LET q == inp.arg.b7 \div inp.arg.b4
            r == inp.arg.b7 % inp.arg.b4
            twice == WShl(WFrom(4, q), 1)
        IN  /\ out.res.high = twice
            /\ out.res.low = IF r >= inp.arg.b4 - r THEN WAdd(twice, WFrom(4, 1))
                             ELSE twice

\* b7 = 3, b4 = 2: 3 in one order and 2 in the other
C23_Witness ==
    /\ out.fn = "p1"
    /\ inp.arg = [b7 |-> 3, b4 |-> 2]
    /\ out.res.low = WFrom(4, 3)
    /\ out.res.high = WFrom(4, 2)

\* the bytes of the BMP388 calibration set that hold each coefficient, in the
\* order PAR_T1, PAR_T2, PAR_T3, PAR_P1..PAR_P11
BMP388_Fields ==
    << {1, 2}, {3, 4}, {5}, {6, 7}, {8, 9}, {10}, {11}, {12, 13}, {14, 15}, {16},
       {17}, {18, 19}, {20}, {21} >>
BMP388_FieldNames ==
    << "PAR_T1", "PAR_T2", "PAR_T3", "PAR_P1", "PAR_P2", "PAR_P3", "PAR_P4", "PAR_P5",
       "PAR_P6", "PAR_P7", "PAR_P8", "PAR_P9", "PAR_P10", "PAR_P11" >>
\* the positions in that order of the coefficients other than PAR_P4
BMP388_NotP4 == {k \in 1..Len(BMP388_FieldNames) : BMP388_FieldNames[k] # "PAR_P4"}

\* the programmed block with up to two coefficients erased to 0x00.. or 0xFF..
CoefInputsBMP388 ==
    { Call("IsValidCoefficients", "SensorBMP388",
           Overwrite(Overwrite(GoodBlock("SensorBMP388"), BMP388_Fields[k1], x1),
                     BMP388_Fields[k2], x2)) :
        k1 \in 1..Len(BMP388_Fields), k2 \in 1..Len(BMP388_Fields),
        x1 \in {0, 255}, x2 \in {0, 255} }
        \cup { Call("IsValidCoefficients", "SensorBMP388", GoodBlock("SensorBMP388")) }

InitCoefBMP388 ==
    /\ Idle
    /\ inp \in CoefInputsBMP388
    /\ out = NoInput

SpecCoefBMP388 == InitCoefBMP388 /\ [][NextCoef]_vars

\* the coefficient k of the block c has every bit of its width 0 or every bit 1
BMP388_Erased(c, k) ==
    \E x \in {0, 255} : \A j \in BMP388_Fields[k] : c[j] = x

\* C25: IsValidCoefficients of the BMP388 returns nil exactly when none of
\* PAR_T1..PAR_T3, PAR_P1..PAR_P3, PAR_P5..PAR_P11 has the all-zero or the
\* all-ones pattern of its width, whatever PAR_P4 holds; otherwise the error
\* names the first such coefficient, never PAR_P4.
C25_P4NotChecked ==
    (out.fn = "IsValidCoefficients" /\ inp.impl = "SensorBMP388") =>
        LET bad == {k \in BMP388_NotP4 : BMP388_Erased(inp.arg, k)}
        IN  /\ (bad = {}) <=> (out.res = "nil")
            /\ (bad # {}) =>
                  \E k \in bad :
                        /\ \A j \in bad : k <= j
                        /\ out.res = BMP388_FieldNames[k]

\* PAR_P4 erased to 0xFF and nothing else erased: the set is accepted
C25_Witness ==
    /\ out.fn = "IsValidCoefficients"
    /\ inp.impl = "SensorBMP388"
    /\ ToU16(BMP388_PAR_P4(inp.arg)) = 65535
    /\ \A k \in BMP388_NotP4 : ~BMP388_Erased(inp.arg, k)
    /\ out.res = "nil"

(***************************************************************************)
(* The temperature compensation of the BMP388, applied to raw counts.      *)
(***************************************************************************)
\* number of consecutive raw temperature counts tried
NumUt == 30
\* raw counts of the 24-bit temperature register: a run of consecutive counts
\* about room temperature, and the ends of the range
RawBMP388 == { 8000000 + k : k \in 0..(NumUt - 1) } \cup {0, 3136010, 9986441, 16777215}

\* the programmed calibration set, and the set with PAR_T3 changed in sign
BlocksBMP388 ==
    { GoodBlock("SensorBMP388"), Overwrite(GoodBlock("SensorBMP388"), {5}, 10) }

InitBMP388 ==
    /\ Idle
    /\ inp \in { Call(fn, "SensorBMP388", [ut |-> ut, coeff |-> c]) :
                    fn \in {"ReadTemperatureMult100C", "ReadPressureMult10Pa"},
                    ut \in RawBMP388, c \in BlocksBMP388 }
    /\ out = NoInput

\* the statements after ReadCoefficients up to partial_data6 (t_lin)
ApplyBMP388 ==
    /\ inp.fn \in {"ReadTemperatureMult100C", "ReadPressureMult10Pa"}
    /\ inp.impl = "SensorBMP388"
    /\ out = NoInput
    /\ out' = Answer(inp.fn,
                     [partial_data5 |-> BMP388_partial_data5(inp.arg.ut, inp.arg.coeff),
                      partial_data6 |->
                          IF inp.fn = "ReadTemperatureMult100C"
                          THEN BMP388_partial_data6(inp.arg.ut, inp.arg.coeff)
                          ELSE BMP388_t_lin(inp.arg.ut, inp.arg.coeff)])
    /\ UNCHANGED <<protoVars, kept, inp>>

SpecBMP388 == InitBMP388 /\ [][ApplyBMP388]_vars

\* C24: in ReadTemperatureMult100C and in the temperature part of
\* ReadPressureMult10Pa of the BMP388, partial_data6 (t_lin) is partial_data5
\* divided by 4294967296 (2^32), the 64-bit quotient truncated toward zero.
C24_DividesByTwoTo32 ==
    (out.fn \in {"ReadTemperatureMult100C", "ReadPressureMult10Pa"}) =>
        out.res.partial_data6 = WQuo(out.res.partial_data5, WShl(WFrom(8, 1), 32))

(***************************************************************************)
(* The calibration set of the handle.                                      *)
(***************************************************************************)
\* C26: ReadCoefficients replaces the calibration set as a whole.  The set is
\* either unset or the complete block of the device; a step of the calibration
\* read that fails, and every step before the final assignment, leaves the
\* set as it was; the set changes only in the final assignment, to all the
\* bytes read, or when NewBMP builds a new value with no set.
C26_AtomicCalibration ==
    /\ [](Coeff = <<>> \/ Coeff = DeviceBlock(bmp, device))
    /\ [][ /\ (status = "running" /\ instr.i \in {"WriteBytes", "readDataToStruct"}) =>
                Coeff' = Coeff
           /\ (status = "running" /\ status' = "done" /\ erro' # NilErr) =>
                Coeff' = Coeff
           /\ (Coeff' # Coeff) =>
                \/ op'.name = "NewBMP" /\ pc' = 1 /\ Coeff' = <<>>
                \/ /\ Running("StoreCoeff")
                   /\ Coeff' = locals.arr
                   /\ Coeff' = DeviceBlock(bmp, device) ]_vars

\* a measurement of the BME280 whose read of the third calibration block
\* failed: the handle still holds the complete set
C26_Witness ==
    /\ status = "done"
    /\ op.name \in ReadOps
    /\ bmp = "SensorBME280"
    /\ erro # NilErr
    /\ trace # <<>>
    /\ trace[Len(trace)] =
            Ev("coefread", BME280_COEF_PART1_BYTES + BME280_COEF_PART2_BYTES,
               BME280_COEF_PART3_BYTES, FALSE)
    /\ Len(locals.arr) = BME280_COEF_PART1_BYTES + BME280_COEF_PART2_BYTES
    /\ Coeff = DeviceBlock(bmp, device)

(***************************************************************************)
(* NewBMP and its sensorType argument.                                     *)
(***************************************************************************)
\* C28: NewBMP does not fault on its sensorType argument: it calls no method
\* on an unset variant implementation, and when it has returned it has
\* returned an error or a handle whose variant implementation is set.
C28_NewBMPNeverFaults ==
    (op.name = "NewBMP") =>
        /\ (status = "running") => (bmp # "nil" /\ instr.i # "Panic")
        /\ (status = "done") =>
                /\ ~ret.panic
                /\ ret.err # NilErr \/ (ret.nonnil /\ bmp # "nil")

(***************************************************************************)
(* The denominators of the BMP180 compensation.                            *)
(***************************************************************************)
\* number of values of MD tried next to the one that cancels x1
NumMD == 6
\* calibration sets of the BMP180: the programmed one with AC3 replaced by the
\* programmed value or its opposite, AC4 by the programmed value or by 1, and
\* MD by the programmed value or by a value about -x1 of the data sheet's raw
\* temperature (x1 = 4743)
BlocksDenominator ==
    { EncodeBE16([[[GoodWordsBMP180 EXCEPT ![3] = ac3] EXCEPT ![4] = ac4]
                        EXCEPT ![11] = md]) :
        ac3 \in {GoodWordsBMP180[3], -GoodWordsBMP180[3]},
        ac4 \in {GoodWordsBMP180[4], 1},
        md \in {GoodWordsBMP180[11]} \cup { -4743 - k : k \in 0..(NumMD - 1) } }

InitDenominator ==
    /\ Idle
    /\ inp \in { Call("Compensation", "SensorBMP180",
                       Compensation(fn, "SensorBMP180",
                                    [Locals0 EXCEPT !.ut = ut, !.up = up], 0, c)) :
                    fn \in {"T", "P"}, ut \in Raw180, up \in Raw180,
                    c \in BlocksDenominator }
    /\ out = NoInput

SpecDenominator == InitDenominator /\ [][ApplyCompensation]_vars

\* C29: the compensation of the BMP180 on a calibration set that passes
\* IsValidCoefficients never divides by zero: x1 + MD of the temperature path
\* and b4 of the pressure path are nonzero.
C29_NoZeroDenominator ==
    (/\ out.fn = "Compensation"
     /\ BMP180_IsValidCoefficients(inp.arg.coeff) = "nil") =>
        ~out.res.panic

(***************************************************************************)
(* The validation of the calibration set, called on the handle.            *)
(***************************************************************************)
\* a validation that drops a calibration set it rejects
CallIsValidCoefficients_drops ==
    /\ handle
    /\ status \in {"idle", "done"}
    /\ op' = [name |-> "IsValidCoefficients", accuracy |-> 0]
    /\ status' = "done"
    /\ pc' = 1
    /\ w' = W0
    /\ since' = Since0
    /\ locals' = Locals0
    /\ trace' = <<>>
    /\ timedOut' = FALSE
    /\ erro' = [e |-> IsValidCoefficients(bmp, Coeff), at |-> 0]
    /\ ret' = Result(SensorReturn(Zero, erro', FALSE), FALSE, FALSE)
    /\ kept' = NoKept
    /\ Coeff' = IF IsValidCoefficients(bmp, Coeff) = "nil" THEN Coeff ELSE <<>>
    /\ UNCHANGED <<sensorType, bmp, handle, device, inp, out>>
\* BMP.IsValidCoefficients on the handle: v.bmp.IsValidCoefficients(), which
\* takes no bus and returns the error of the first check that fails
CallIsValidCoefficients ==
    /\ handle
    /\ status \in {"idle", "done"}
    /\ op' = [name |-> "IsValidCoefficients", accuracy |-> 0]
    /\ status' = "done"
    /\ pc' = 1
    /\ w' = W0
    /\ since' = Since0
    /\ locals' = Locals0
    /\ trace' = <<>>
    /\ timedOut' = FALSE
    /\ erro' = [e |-> IsValidCoefficients(bmp, Coeff), at |-> 0]
    /\ ret' = Result(SensorReturn(Zero, erro', FALSE), FALSE, FALSE)
    /\ kept' = NoKept
    /\ UNCHANGED <<persistVars, inp, out>>

\* the caller of Spec, who may also validate the calibration set of the handle
NextValidate ==
    \/ CallIsValidCoefficients
    \/ NewBMP
    \/ CallRead
    \/ WriteStep
    \/ Poll
    \/ WaitTimeout
    \/ ReadStep
    \/ RecognizeStep
    \/ CoefAddrStep
    \/ CoefReadStep
    \/ StoreStep
    \/ ReturnStep
    \/ PanicStep

SpecValidate == Init /\ [][NextValidate]_vars

\* C27: IsValidCoefficients and RecognizeSignature issue no bus operation and
\* leave the variant, the calibration set and the rest of the handle as they
\* were; whatever was called before, IsValidCoefficients returns the verdict
\* on the calibration set the last successful calibration read has stored,
\* which is the complete block of the device.
C27_ValidationIsPure ==
    /\ [](op.name = "IsValidCoefficients" =>
            /\ trace = <<>>
            /\ handle
            /\ Coeff = DeviceBlock(bmp, device)
            /\ ret.err.e = IsValidCoefficients(bmp, DeviceBlock(bmp, device)))
    /\ [][ /\ (op'.name = "IsValidCoefficients") =>
                /\ persistVars' = persistVars
                /\ ret'.err.e = IsValidCoefficients(bmp, Coeff)
           /\ Running("RecognizeSignature") =>
                /\ persistVars' = persistVars
                /\ \A k \in 1..Len(trace') :
                        k > Len(trace) => trace'[k].k \notin BusKinds ]_vars

\* the handle of a BMP180 whose AC1 is erased: the validation names AC1 and
\* the handle keeps the set
C27_Witness ==
    /\ op.name = "IsValidCoefficients"
    /\ status = "done"
    /\ bmp = "SensorBMP180"
    /\ handle
    /\ ret.err.e = "AC1"
    /\ Coeff = DeviceBlock("SensorBMP180", device)
    /\ Sentinel16(Coeff, 1)

====
